---- MODULE Spec2Model ----
(***************************************************************************)
(* Model of the websocket channel multiplexer (WebSocketMultiplex): two    *)
(* multiplexers "A" and "B" joined by an ordered carrier.  Each endpoint   *)
(* keeps openChannels (local id -> context) and openRemoteChannels (remote *)
(* id -> local id).  One action per public operation, per inbound message  *)
(* handler, per timer and per deferred callback.                           *)
(***************************************************************************)
EXTENDS Integers, Sequences, FiniteSets, TLC

(* ---- bounds of the model ---- *)
\* initiating open() calls, over both endpoints
MaxOpens == 2
\* send() and flowControl() calls, over both endpoints
MaxMsgs == 1
\* initiating open() calls when nothing but open() is called
MaxOpensOnly == 3
\* longest payload handed to send()
MaxLen == 2
\* messages a peer puts on the carrier with a direct sendMessage call
MaxRaw == 1
\* open() calls next to such messages
MaxOpensRaw == 2
\* open() calls that succeed, initiating or accepting, when nothing is closed or sent
MaxOpensAccept == 3
\* initiating open() calls, and send() and flowControl() calls, of applications that
\* pass any channel id
MaxOpensApi == 1
MaxMsgsApi == 2
\* open() calls on tables of any capacity
MaxOpensCap == 3

\* open() and send() calls of applications whose byte counters are followed
MaxOpensCount == 1
MaxMsgsCount == 2
\* length of the longer of the payloads these applications send (the tests send "hello")
HelloLen == 5

\* open() calls, messages of an unsupported version, and destroy() calls and carrier
\* closes, of sessions that are terminated
MaxOpensFatal == 1
MaxRawFatal == 1
MaxEndsFatal == 2
\* open() and destroy() calls of applications that go on after destroy()
MaxOpensEnd == 2
MaxEndsEnd == 1
\* calls made on a closed multiplexer: open(), channel calls, destroy() and carrier ends
MaxOpensClosed == 1
MaxMsgsClosed == 1
MaxEndsClosed == 2
\* adapters: createConnection() calls, write() calls, the readable high-water mark in
\* bytes, the inactivity timeout in time units and the time that passes
MaxSocks == 1
MaxWrites == 4
HighWaterMark == 2
SockTimeoutMs == 2
MaxSockTime == 5
MaxWritesTimed == 2
MaxSetTimeouts == 2
\* open() and destroy() calls of applications that accept channels themselves
MaxOpensDefer == 2
MaxEndsDefer == 1
\* open() calls and messages the peer puts on the carrier itself, of sessions that
\* receive messages they ignore
MaxOpensIgnore == 2
MaxRawIgnore == 1
\* largest maxChannels option and largest number of allocated ids that allocateChannel
\* is tried on
MaxChannelsAlloc == 5
MaxKeysAlloc == 4
\* messages whose carrier frames are followed, and the buffers of a payload
MaxFramed == 2
MaxSegments == 3
\* open() calls and CLOSE messages with a payload the peer sends itself
MaxOpensRemote == 2
MaxRawRemote == 1
\* write() and destroy() calls on adapters that are destroyed by their application
MaxWritesEnd == 2
MaxSockEnds == 1
\* open() calls of sessions whose keep-alive is followed
MaxOpensAlive == 1
\* the keepAlive and aliveThreshold options, in units of 1000 ms
KeepAliveMs == 2
AliveThresholdMs == 4
\* pings sent and not yet answered
MaxPings == 3
\* largest maxChannels option an endpoint is constructed with
MaxChannels == 2
\* the source's CHANNEL_MAX is 2^32; scaled to keep ids inside TLC's integers
CHANNEL_MAX == 16

(* ---- program constants ---- *)
CHANNEL_MIN == 1
VERSION_1 == 1
VERSION_2 == 2
MESSAGE_DATA == 1
MESSAGE_OPEN == 2
MESSAGE_ACK == 3
MESSAGE_CLOSE == 4
MESSAGE_PAUSE == 5
MESSAGE_RESUME == 6

ERR_WS_PING_TIMEOUT == "ERR_WS_PING_TIMEOUT"
ERR_WS_SOCKET_CLOSED_UNEXPECTEDLY == "ERR_WS_SOCKET_CLOSED_UNEXPECTEDLY"
ERR_WS_SOCKED_CLOSED == "ERR_WS_SOCKED_CLOSED"
ERR_WSM_UNSUPPORTED_PROTOCOL_VERSION == "ERR_WSM_UNSUPPORTED_PROTOCOL_VERSION"
ERR_WSM_NO_CHANNELS == "ERR_WSM_NO_CHANNELS"
ERR_WSM_OPEN_CHANNEL_TIMEOUT == "ERR_WSM_OPEN_CHANNEL_TIMEOUT"
ERR_WSM_OPEN_CHANNEL_REJECTED == "ERR_WSM_OPEN_CHANNEL_REJECTED"
ERR_WSM_CHANNEL_NOT_OPEN == "ERR_WSM_CHANNEL_NOT_OPEN"
ERR_WSM_CHANNEL_CLOSED_BY_PEER == "ERR_WSM_CHANNEL_CLOSED_BY_PEER"
ERR_WSM_OPEN_CHANNEL_REUSE == "ERR_WSM_OPEN_CHANNEL_REUSE"
ERR_WSM_CHANNEL_MISMATCH == "ERR_WSM_CHANNEL_MISMATCH"
\* thrown by a failed assert() of allocateChannel
ERR_ASSERTION == "ERR_ASSERTION"

Endpoints == {"A", "B"}
Peer(e) == IF e = "A" THEN "B" ELSE "A"

\* payloads handed to send(): <<1>>, <<1,2>>, ...
DataSet == { [i \in 1..n |-> i] : n \in 1..MaxLen }

(* ---- errors, frames, callback events ---- *)
NoErr == [code |-> "", remote |-> ""]
Err(code) == [code |-> code, remote |-> ""]
ErrRemote(code, remote) == [code |-> code, remote |-> remote]

\* a message on the carrier: header fields, DATA payload, CLOSE error payload
\* (encodeHeader writes VERSION_2)
Frame(type, dst, src, data, err) ==
    [version |-> VERSION_2, type |-> type, dstChannel |-> dst, srcChannel |-> src,
     data |-> data, err |-> err]

\* an event the multiplexer emits: 'error' with a code, or 'close'; `closed` is the
\* value of WebSocketMultiplex.closed when it is emitted
Emitted(ev, code, isClosed) == [ev |-> ev, code |-> code, closed |-> isClosed]

\* one delivered channel callback
Ev(cb, arg, err, data) ==
    [cb |-> cb, arg |-> arg, code |-> err.code, remote |-> err.remote, data |-> data]
EvOpen(dst) == Ev("open", dst, NoErr, <<>>)
EvClose(ch) == Ev("close", ch, NoErr, <<>>)
EvError(err) == Ev("error", 0, err, <<>>)
EvData(d) == Ev("data", 0, NoErr, d)
EvFlow(stop) == Ev("flow", IF stop THEN 1 ELSE 0, NoErr, <<>>)

(* ---- helpers on partial maps ---- *)
Has(m, k) == k \in DOMAIN m
Del(m, k) == [x \in DOMAIN m \ {k} |-> m[x]]
Put(m, k, v) == [x \in DOMAIN m \cup {k} |-> IF x = k THEN v ELSE m[x]]
EmptyMap == [x \in {} |-> 0]

VARIABLES
    maxChannels,          \* [e] the maxChannels option the endpoint was constructed with
    closed,               \* [e] WebSocketMultiplex.closed
    openChannels,         \* [e] local id -> WSMChannelContext
    openRemoteChannels,   \* [e] remote id -> local id
    net,                  \* [e] messages on the carrier, in order, on their way to e
    ticks,                \* [e] callbacks queued with process.nextTick
    sendCbs,              \* [e] completion callbacks the carrier still owes for sent messages
    log,                  \* [e] per installed context, in order of installation, the callbacks delivered to it
    term,                 \* [e] the terminate() calls suspended at their await, oldest first
    events,               \* [e] the events the multiplexer has emitted, in order
    socket,               \* [e] the carrier as e sees it: open or not, time since the last pong
                          \*     and since the last keep-alive check, pings not yet answered
    sock,                 \* [e] the WebSocketMultiplexSocket adapters created at e, in order of creation
    wire,                 \* the message the codec is working on: its fields, its bytes, what was decoded
    budget,               \* the open() and send()/flowControl() calls the bounds still allow
    ret                   \* result of the API call that made the last step (RetNone after any other step)

vars == <<maxChannels, closed, openChannels, openRemoteChannels, net, ticks,
          sendCbs, log, term, events, socket, sock, wire, budget, ret>>

\* the codec at rest
NoWire == [phase |-> "idle"]

(* ---- the endpoint's state while one handler runs ---- *)
\* out: the messages the handler has sent so far
St(e) ==
    [closed |-> closed[e], oc |-> openChannels[e], orc |-> openRemoteChannels[e],
     log |-> log[e], ticks |-> ticks[e], cbs |-> sendCbs[e], term |-> term[e],
     events |-> events[e], out |-> <<>>]

RetNone == [op |-> "", e |-> "", channel |-> 0, ok |-> TRUE, code |-> ""]
Ret(op, e, channel, ok, code) ==
    [op |-> op, e |-> e, channel |-> channel, ok |-> ok, code |-> code]

\* the handler's effects become the endpoint's state; its messages go on the carrier
\* when that is up, and the `consumed` (0 or 1) inbound messages it handled leave it
Effects(e, S, r, consumed, up) ==
    /\ openChannels' = [openChannels EXCEPT ![e] = S.oc]
    /\ openRemoteChannels' = [openRemoteChannels EXCEPT ![e] = S.orc]
    /\ log' = [log EXCEPT ![e] = S.log]
    /\ ticks' = [ticks EXCEPT ![e] = S.ticks]
    /\ sendCbs' = [sendCbs EXCEPT ![e] = S.cbs]
    /\ net' = [x \in Endpoints |->
                 IF x = e THEN SubSeq(net[e], consumed + 1, Len(net[e]))
                 ELSE IF up THEN net[x] \o S.out ELSE net[x]]
    /\ closed' = [closed EXCEPT ![e] = S.closed]
    /\ term' = [term EXCEPT ![e] = S.term]
    /\ events' = [events EXCEPT ![e] = S.events]
    /\ ret' = r
    /\ UNCHANGED <<maxChannels, wire>>

\* a handler that leaves the carrier's state and the keep-alive clock alone
Commit(e, S, r, consumed) ==
    /\ Effects(e, S, r, consumed, socket[e].open)
    /\ UNCHANGED <<socket, sock>>

Deliver_cb(S, inst, ev) == [S EXCEPT !.log[inst] = Append(@, ev)]

(* ---- channel allocator ---- *)
RECURSIVE Digits(_)
\* the decimal digits of n, as Object.keys() spells a key
Digits(n) == IF n < 10 THEN <<n>> ELSE Append(Digits(n \div 10), n % 10)

RECURSIVE SeqLess(_, _)
\* s sorts before t in Array.prototype.sort()'s default (string) order
SeqLess(s, t) ==
    IF s = <<>> THEN t # <<>>
    ELSE IF t = <<>> THEN FALSE
    ELSE IF Head(s) # Head(t) THEN Head(s) < Head(t)
    ELSE SeqLess(Tail(s), Tail(t))

\* the last element of Object.keys(openChannels).sort()
LastKey(keys) ==
    CHOOSE k \in keys : \A j \in keys \ {k} : SeqLess(Digits(j), Digits(k))

RECURSIVE Probe(_, _, _, _)
\* for (i = 0; openChannels[channel] != undefined && i < maxChannels; i++) channel++
Probe(keys, channel, i, max) ==
    IF channel \in keys /\ i < max THEN Probe(keys, channel + 1, i + 1, max) ELSE channel

\* allocateChannel that takes the table for full only above maxChannels
allocateChannel_OffByOne(oc, max) ==
    LET keys == DOMAIN oc IN
    IF Cardinality(keys) > max THEN [channel |-> 0, err |-> Err(ERR_WSM_NO_CHANNELS)]
    ELSE LET start == ((IF keys = {} THEN 0 ELSE LastKey(keys)) % CHANNEL_MAX) + 1
             channel == Probe(keys, start, 0, max)
         IN IF channel >= CHANNEL_MIN /\ channel <= CHANNEL_MAX /\ channel \notin keys
            THEN [channel |-> channel, err |-> NoErr]
            ELSE [channel |-> 0, err |-> Err(ERR_ASSERTION)]

allocateChannel(oc, max) ==
    LET keys == DOMAIN oc IN
    IF Cardinality(keys) >= max THEN [channel |-> 0, err |-> Err(ERR_WSM_NO_CHANNELS)]
    ELSE LET start == ((IF keys = {} THEN 0 ELSE LastKey(keys)) % CHANNEL_MAX) + 1
             channel == Probe(keys, start, 0, max)
         IN IF channel >= CHANNEL_MIN /\ channel <= CHANNEL_MAX /\ channel \notin keys
            THEN [channel |-> channel, err |-> NoErr]
            ELSE [channel |-> 0, err |-> Err(ERR_ASSERTION)]

(* ---- sending ---- *)
\* sendMessage up to its callback: nothing when closed; otherwise the message goes out
\* and a DATA message is counted in the source channel's bytesWritten
\* sendMessage that does not look at closed
sendMessage_NoGuard(S, type, dst, src, data, err) ==
    LET S1 == [S EXCEPT !.out = Append(@, Frame(type, dst, src, data, err))] IN
    IF type = MESSAGE_DATA
    THEN [S1 EXCEPT !.oc[src].bytesWritten = @ + Len(data)]
    ELSE S1

\* sendMessage that does not count a DATA message in bytesWritten
sendMessage_NoCount(S, type, dst, src, data, err) ==
    IF S.closed THEN S
    ELSE [S EXCEPT !.out = Append(@, Frame(type, dst, src, data, err))]

sendMessage(S, type, dst, src, data, err) ==
    IF S.closed THEN S
    ELSE LET S1 == [S EXCEPT !.out = Append(@, Frame(type, dst, src, data, err))] IN
         IF type = MESSAGE_DATA
         THEN [S1 EXCEPT !.oc[src].bytesWritten = @ + Len(data)]
         ELSE S1

\* the callback closeRemoteChannel hands to sendMessage
closeRemoteDone(S, dst, src) ==
    LET S1 == [S EXCEPT !.orc = Del(@, dst)] IN
    IF src # 0 /\ Has(S1.oc, src) THEN [S1 EXCEPT !.oc[src].dstChannel = 0] ELSE S1

\* src = 0 stands for an undefined srcChannel.  Without a payload (or when closed)
\* sendMessage calls back at once; with an error payload the carrier calls back later.
closeRemoteChannel(S, dst, src, err) ==
    LET S1 == sendMessage(S, MESSAGE_CLOSE, dst, src, <<>>, err.code) IN
    IF S.closed \/ err = NoErr
    THEN closeRemoteDone(S1, dst, src)
    ELSE [S1 EXCEPT !.cbs = Append(@, [dstChannel |-> dst, srcChannel |-> src])]

\* closeLocalChannel that leaves openRemoteChannels alone
closeLocalChannel_KeepsRemote(S, channel, err) ==
    IF ~Has(S.oc, channel) THEN S
    ELSE LET context == S.oc[channel]
             S1 == IF err # NoErr THEN Deliver_cb(S, context.inst, EvError(err)) ELSE S
             S2 == Deliver_cb(S1, context.inst, EvClose(channel))
         IN [S2 EXCEPT !.oc = Del(@, channel)]

closeLocalChannel(S, channel, err) ==
    IF ~Has(S.oc, channel) THEN S
    ELSE LET context == S.oc[channel]
             S1 == IF err # NoErr THEN Deliver_cb(S, context.inst, EvError(err)) ELSE S
             S2 == Deliver_cb(S1, context.inst, EvClose(channel))
         IN [S2 EXCEPT !.orc = IF context.dstChannel > 0 THEN Del(@, context.dstChannel) ELSE @,
                       !.oc = Del(@, channel)]

(* ---- public operations, as functions of the endpoint's state ---- *)
\* close that refuses an absent channel only, not one that is still opening
close_OnlyAbsent(S, channel) ==
    IF ~Has(S.oc, channel)
    THEN [S |-> S, ok |-> FALSE, err |-> Err(ERR_WSM_CHANNEL_NOT_OPEN)]
    ELSE [S |-> closeLocalChannel(
                    closeRemoteChannel(S, S.oc[channel].dstChannel, channel, NoErr),
                    channel, NoErr),
          ok |-> TRUE, err |-> NoErr]

close(S, channel) ==
    IF ~Has(S.oc, channel) \/ S.oc[channel].dstChannel = 0
    THEN [S |-> S, ok |-> FALSE, err |-> Err(ERR_WSM_CHANNEL_NOT_OPEN)]
    ELSE [S |-> closeLocalChannel(
                    closeRemoteChannel(S, S.oc[channel].dstChannel, channel, NoErr),
                    channel, NoErr),
          ok |-> TRUE, err |-> NoErr]

\* accept = TRUE when options.dstChannel is given (dst); channel 0 stands for undefined
open(S, accept, dst, max) ==
    IF accept /\ Has(S.orc, dst)
    THEN [S |-> S, channel |-> 0, err |-> Err(ERR_WSM_OPEN_CHANNEL_REUSE)]
    ELSE
    LET a == allocateChannel(S.oc, max) IN
    IF a.err # NoErr THEN [S |-> S, channel |-> 0, err |-> a.err]
    ELSE
    LET channel == a.channel
        inst == Len(S.log) + 1
        context == [dstChannel |-> 0, bytesWritten |-> 0, bytesRead |-> 0,
                    ackTimeout |-> FALSE, inst |-> inst]
        S1 == [S EXCEPT !.oc = Put(@, channel, context), !.log = Append(@, <<>>)]
    IN
    IF ~accept
    THEN LET S2 == sendMessage(S1, MESSAGE_OPEN, 0, channel, <<>>, "") IN
         [S |-> IF S.closed
                THEN [Deliver_cb(S2, inst, EvError(Err(ERR_WS_SOCKED_CLOSED)))
                        EXCEPT !.oc = Del(@, channel)]
                ELSE [S2 EXCEPT !.oc[channel].ackTimeout = TRUE],
          channel |-> channel, err |-> NoErr]
    ELSE LET S2 == [S1 EXCEPT !.oc[channel].dstChannel = dst, !.orc = Put(@, dst, channel)]
             S3 == sendMessage(S2, MESSAGE_ACK, dst, channel, <<>>, "")
         IN
         [S |-> IF S.closed
                THEN close(Deliver_cb(S3, inst, EvError(Err(ERR_WS_SOCKED_CLOSED))), channel).S
                ELSE [S3 EXCEPT !.ticks = Append(@, [kind |-> "onOpen", inst |-> inst,
                                                     arg |-> dst, code |-> ""])],
          channel |-> channel, err |-> NoErr]

send(S, channel, data) ==
    IF ~Has(S.oc, channel) \/ S.oc[channel].dstChannel = 0
    THEN [S |-> [S EXCEPT !.ticks = Append(@, [kind |-> "callback", inst |-> 0, arg |-> channel,
                                               code |-> ERR_WSM_CHANNEL_NOT_OPEN])],
          ok |-> FALSE]
    ELSE [S |-> sendMessage(S, MESSAGE_DATA, S.oc[channel].dstChannel, channel, data, ""),
          ok |-> ~S.closed]

flowControl(S, channel, stop) ==
    IF ~Has(S.oc, channel) \/ S.oc[channel].dstChannel = 0
    THEN [S |-> [S EXCEPT !.ticks = Append(@, [kind |-> "callback", inst |-> 0, arg |-> channel,
                                               code |-> ERR_WSM_CHANNEL_NOT_OPEN])],
          ok |-> FALSE]
    ELSE [S |-> sendMessage(S, IF stop THEN MESSAGE_PAUSE ELSE MESSAGE_RESUME,
                            S.oc[channel].dstChannel, channel, <<>>, ""),
          ok |-> ~S.closed]

(* ---- termination ---- *)
RECURSIVE KeysOf(_)
\* Object.keys() of a table with integer keys: the keys in ascending order
KeysOf(keys) ==
    IF keys = {} THEN <<>>
    ELSE LET k == CHOOSE x \in keys : \A y \in keys : x <= y
         IN <<k>> \o KeysOf(keys \ {k})

\* terminate()'s end with the two events in the other order
terminateEnd_CloseFirst(S, error) ==
    LET S1 == [S EXCEPT !.closed = TRUE]
        S2 == [S1 EXCEPT !.events = Append(@, Emitted("close", "", S1.closed))]
    IN IF error # ""
       THEN [S2 EXCEPT !.events = Append(@, Emitted("error", error, S2.closed))]
       ELSE S2

\* the end of terminate(): closed is set, the timer and the listeners go, and
\* 'error' (when there is one) and then 'close' are emitted (to an application that
\* listens to 'error', as an EventEmitter requires)
terminateEnd(S, error) ==
    LET S1 == [S EXCEPT !.closed = TRUE]
        S2 == IF error # ""
              THEN [S1 EXCEPT !.events = Append(@, Emitted("error", error, S1.closed))]
              ELSE S1
    IN [S2 EXCEPT !.events = Append(@, Emitted("close", "", S2.closed))]

\* terminate()'s loop from the head of an iteration over the channels in `keys` up to
\* its await: the CLOSE for the next channel is sent and the call is suspended; a
\* channel that is no longer in openChannels makes context.dstChannel throw, which
\* ends the call on the spot; with no channel left the call ends
terminateLoop(S, keys, error, by) ==
    IF keys = <<>> THEN terminateEnd(S, error)
    ELSE LET channel == Head(keys) IN
         IF ~Has(S.oc, channel) THEN S
         ELSE LET S1 == closeRemoteChannel(S, S.oc[channel].dstChannel, channel, NoErr)
              IN [S1 EXCEPT !.term = Append(@, [channel |-> channel, keys |-> Tail(keys),
                                                error |-> error, by |-> by])]

\* terminate(error), up to its first await; `by` records who called it
terminate(S, error, by) ==
    IF S.closed THEN S
    ELSE terminateLoop(S, KeysOf(DOMAIN S.oc), error, by)

\* the oldest suspended terminate() goes on after its await
terminateResume(S) ==
    LET t == Head(S.term)
        S1 == closeLocalChannel([S EXCEPT !.term = Tail(@)], t.channel, NoErr)
    IN terminateLoop(S1, t.keys, t.error, t.by)

(* ---- inbound message handlers ---- *)
\* handleAckMessage without clearTimeout(context.ackTimeout)
handleAckMessage_KeepsTimer(S, f) ==
    IF ~Has(S.oc, f.dstChannel)
    THEN closeRemoteChannel(S, f.srcChannel, 0, Err(ERR_WSM_CHANNEL_NOT_OPEN))
    ELSE LET inst == S.oc[f.dstChannel].inst
             S1 == [S EXCEPT !.oc[f.dstChannel].dstChannel = f.srcChannel,
                             !.orc = Put(@, f.srcChannel, f.dstChannel)]
         IN Deliver_cb(S1, inst, EvOpen(f.srcChannel))

handleAckMessage(S, f) ==
    IF ~Has(S.oc, f.dstChannel)
    THEN closeRemoteChannel(S, f.srcChannel, 0, Err(ERR_WSM_CHANNEL_NOT_OPEN))
    ELSE LET inst == S.oc[f.dstChannel].inst
             S1 == [S EXCEPT !.oc[f.dstChannel].dstChannel = f.srcChannel,
                             !.oc[f.dstChannel].ackTimeout = FALSE,
                             !.orc = Put(@, f.srcChannel, f.dstChannel)]
         IN Deliver_cb(S1, inst, EvOpen(f.srcChannel))

\* handleOpenMessage that drops an OPEN it cannot accept without answering
handleOpenMessage_NoReply(S, f, max) ==
    LET r == open(S, TRUE, f.srcChannel, max) IN
    IF r.err = NoErr THEN r.S ELSE S

\* handleOpenMessage that answers an OPEN it cannot accept but leaves the local channels alone
handleOpenMessage_KeepsLocal(S, f, max) ==
    LET r == open(S, TRUE, f.srcChannel, max) IN
    IF r.err = NoErr THEN r.S ELSE closeRemoteChannel(S, f.srcChannel, 0, r.err)

\* sock.connect({dstChannel: src}) opens the accepting channel; when open fails the
\* error is thrown and caught
handleOpenMessage(S, f, max) ==
    LET r == open(S, TRUE, f.srcChannel, max) IN
    IF r.err = NoErr THEN r.S
    ELSE LET S1 == closeRemoteChannel(S, f.srcChannel, 0, r.err) IN
         IF Has(S1.orc, f.srcChannel)
         THEN closeLocalChannel(S1, S1.orc[f.srcChannel], r.err)
         ELSE S1

\* the keys of the enum WebSocketMultiplexErrorCode
ErrorCodes ==
    {ERR_WS_PING_TIMEOUT, ERR_WS_SOCKET_CLOSED_UNEXPECTEDLY, ERR_WS_SOCKED_CLOSED,
     ERR_WSM_UNSUPPORTED_PROTOCOL_VERSION, ERR_WSM_NO_CHANNELS, ERR_WSM_OPEN_CHANNEL_TIMEOUT,
     ERR_WSM_OPEN_CHANNEL_REJECTED, ERR_WSM_CHANNEL_NOT_OPEN, ERR_WSM_CHANNEL_CLOSED_BY_PEER,
     ERR_WSM_OPEN_CHANNEL_REUSE, ERR_WSM_CHANNEL_MISMATCH}

\* a remote error is written as its code when it is a WebSocketMultiplexError
\* ("undefined" for one whose code is undefined) and as "Error: " and its message when
\* it is a plain Error
TypedError(code) == code
GenericError(message) == "Error: " \o message

\* WebSocketMultiplexError.from(str): the enum has no entry for a string that is no
\* code, the lookup gives undefined, and the constructor takes undefined without
\* throwing, so the catch that returns undefined is never entered
from(str) == TypedError(IF str \in ErrorCodes THEN str ELSE "undefined")

\* WebSocketMultiplexError.from(errorStr) || new Error(errorStr): from's result is an
\* object, never undefined
closeErrOf(errorStr) == from(errorStr)

handleCloseMessage(S, f) ==
    LET err == IF Has(S.oc, f.dstChannel) /\ S.oc[f.dstChannel].ackTimeout
               THEN ErrRemote(ERR_WSM_OPEN_CHANNEL_REJECTED,
                              IF f.err # "" THEN closeErrOf(f.err) ELSE "")
               ELSE IF f.err # ""
               THEN ErrRemote(ERR_WSM_CHANNEL_CLOSED_BY_PEER, closeErrOf(f.err))
               ELSE NoErr
    IN closeLocalChannel(S, f.dstChannel, err)

\* this.openRemoteChannels[src] != context.dstChannel (an absent entry differs from any number)
ChannelMismatch(S, f) ==
    ~Has(S.orc, f.srcChannel) \/ S.orc[f.srcChannel] # S.oc[f.dstChannel].dstChannel

handleDataMessage(S, f) ==
    IF ~Has(S.oc, f.dstChannel)
    THEN closeRemoteChannel(S, f.srcChannel, 0, Err(ERR_WSM_CHANNEL_NOT_OPEN))
    ELSE
    LET context == S.oc[f.dstChannel] IN
    IF ChannelMismatch(S, f)
    THEN LET err == Err(ERR_WSM_CHANNEL_MISMATCH)
             S1 == closeRemoteChannel(S, context.dstChannel, f.dstChannel, err)
             S2 == closeLocalChannel(S1, f.dstChannel, err)
         IN IF Has(S2.orc, f.srcChannel) /\ Has(S2.oc, S2.orc[f.srcChannel])
            THEN LET second == S2.orc[f.srcChannel]
                     S3 == closeRemoteChannel(S2, S2.oc[second].dstChannel, second, err)
                 IN closeLocalChannel(S3, second, err)
            ELSE S2
    ELSE Deliver_cb([S EXCEPT !.oc[f.dstChannel].bytesRead = @ + Len(f.data)],
                    context.inst, EvData(f.data))

handlePauseMessage(S, f) ==
    IF ~Has(S.oc, f.dstChannel)
    THEN closeRemoteChannel(S, f.srcChannel, 0, Err(ERR_WSM_CHANNEL_NOT_OPEN))
    ELSE Deliver_cb(S, S.oc[f.dstChannel].inst, EvFlow(TRUE))

handleResumeMessage(S, f) ==
    IF ~Has(S.oc, f.dstChannel)
    THEN closeRemoteChannel(S, f.srcChannel, 0, Err(ERR_WSM_CHANNEL_NOT_OPEN))
    ELSE Deliver_cb(S, S.oc[f.dstChannel].inst, EvFlow(FALSE))

onMessage(S, f, max) ==
    IF f.version # VERSION_2
    THEN terminate(S, ERR_WSM_UNSUPPORTED_PROTOCOL_VERSION, "fatal")
    ELSE
    CASE f.type = MESSAGE_DATA -> handleDataMessage(S, f)
      [] f.type = MESSAGE_OPEN -> handleOpenMessage(S, f, max)
      [] f.type = MESSAGE_CLOSE -> handleCloseMessage(S, f)
      [] f.type = MESSAGE_ACK -> handleAckMessage(S, f)
      [] f.type = MESSAGE_PAUSE -> handlePauseMessage(S, f)
      [] f.type = MESSAGE_RESUME -> handleResumeMessage(S, f)
      [] OTHER -> S

(* ---- initial state: two freshly constructed multiplexers on an open carrier ---- *)
\* the multiplexers and their adapters after construction
Fresh_Mux ==
    /\ closed = [e \in Endpoints |-> FALSE]
    /\ openChannels = [e \in Endpoints |-> EmptyMap]
    /\ openRemoteChannels = [e \in Endpoints |-> EmptyMap]
    /\ net = [e \in Endpoints |-> <<>>]
    /\ ticks = [e \in Endpoints |-> <<>>]
    /\ sendCbs = [e \in Endpoints |-> <<>>]
    /\ log = [e \in Endpoints |-> <<>>]
    /\ term = [e \in Endpoints |-> <<>>]
    /\ events = [e \in Endpoints |-> <<>>]
    /\ socket = [e \in Endpoints |-> [open |-> TRUE, sincePong |-> 0, sinceCheck |-> 0,
                                       pings |-> 1]]
    /\ sock = [e \in Endpoints |-> <<>>]
    /\ ret = RetNone

Fresh ==
    /\ Fresh_Mux
    /\ wire = NoWire

Init ==
    /\ Fresh
    /\ maxChannels = [e \in Endpoints |-> MaxChannels]
    /\ budget = [opens |-> MaxOpens, msgs |-> MaxMsgs, raw |-> 0, ends |-> 0]

(* ---- actions ---- *)
\* application code can run at e: no terminate() is suspended, or one that the
\* application called itself, with destroy(), and did not wait for
AppRuns(e) == term[e] = <<>> \/ \E i \in 1..Len(term[e]) : term[e][i].by = "destroy"

\* the event loop of e can start a timer or I/O callback: the process.nextTick queue
\* is empty and no terminate() is suspended at its await
Idle(e) == ticks[e] = <<>> /\ term[e] = <<>>

\* open({}, ...): the application initiates a channel
Open(e) ==
    /\ budget.opens > 0
    /\ AppRuns(e)
    /\ budget' = [budget EXCEPT !.opens = @ - 1]
    /\ LET r == open(St(e), FALSE, 0, maxChannels[e]) IN
       Commit(e, r.S, Ret("open", e, r.channel, r.err = NoErr, r.err.code), 0)

\* open({dstChannel: dst}, ...): the application accepts a peer's channel itself
\* (a refused call installs nothing and is not counted against the bound)
OpenDst(e, dst) ==
    LET r == open(St(e), TRUE, dst, maxChannels[e]) IN
       /\ budget.opens > 0 \/ r.err # NoErr
       /\ AppRuns(e)
       /\ Commit(e, r.S, Ret("open", e, r.channel, r.err = NoErr, r.err.code), 0)
       /\ budget' = IF r.err = NoErr THEN [budget EXCEPT !.opens = @ - 1] ELSE budget

\* close(channel)
Close(e, channel) ==
    /\ AppRuns(e)
    /\ LET r == close(St(e), channel) IN
       Commit(e, r.S, Ret("close", e, channel, r.ok, r.err.code), 0)
    /\ UNCHANGED budget

\* send(channel, data, callback)
Send(e, channel, data) ==
    /\ budget.msgs > 0
    /\ AppRuns(e)
    /\ budget' = [budget EXCEPT !.msgs = @ - 1]
    /\ LET r == send(St(e), channel, data) IN
       Commit(e, r.S, Ret("send", e, channel, r.ok,
                          IF r.ok THEN "" ELSE ERR_WSM_CHANNEL_NOT_OPEN), 0)

\* flowControl(channel, stop, callback)
FlowControl(e, channel, stop) ==
    /\ budget.msgs > 0
    /\ AppRuns(e)
    /\ budget' = [budget EXCEPT !.msgs = @ - 1]
    /\ LET r == flowControl(St(e), channel, stop) IN
       Commit(e, r.S, Ret("flowControl", e, channel, r.ok,
                          IF r.ok THEN "" ELSE ERR_WSM_CHANNEL_NOT_OPEN), 0)

\* the carrier's "message" event: the oldest message on its way to e is handled, or
\* falls on no listener once terminate() has detached it.
\* I/O events run only once the process.nextTick queue is empty.
Deliver(e) ==
    /\ net[e] # <<>>
    /\ Idle(e)
    /\ socket[e].open
    /\ Commit(e, IF closed[e] THEN St(e) ELSE onMessage(St(e), Head(net[e]), maxChannels[e]),
              RetNone, 1)
    /\ UNCHANGED budget

\* the oldest process.nextTick callback runs: the deferred onOpen of an accepted
\* channel, or the callback of a send/flowControl that failed
Tick(e) ==
    /\ ticks[e] # <<>>
    /\ LET t == Head(ticks[e])
           S == [St(e) EXCEPT !.ticks = Tail(@)]
       IN Commit(e, IF t.kind = "onOpen" THEN Deliver_cb(S, t.inst, EvOpen(t.arg)) ELSE S,
                 RetNone, 0)
    /\ UNCHANGED budget

\* the carrier reports the oldest CLOSE-with-payload as sent: closeRemoteChannel's callback runs
SendDone(e) ==
    /\ sendCbs[e] # <<>>
    /\ term[e] = <<>>
    /\ LET c == Head(sendCbs[e])
           S == [St(e) EXCEPT !.cbs = Tail(@)]
       IN Commit(e, closeRemoteDone(S, c.dstChannel, c.srcChannel), RetNone, 0)
    /\ UNCHANGED budget

\* the ack timer of an opening channel expires
AckTimeout(e, channel) ==
    /\ Has(openChannels[e], channel)
    /\ openChannels[e][channel].ackTimeout
    /\ Idle(e)
    /\ LET S == St(e)
           S1 == Deliver_cb(S, S.oc[channel].inst, EvError(Err(ERR_WSM_OPEN_CHANNEL_TIMEOUT)))
       IN Commit(e, [S1 EXCEPT !.oc = Del(@, channel)], RetNone, 0)
    /\ UNCHANGED budget

\* destroy(): terminate() without an error, up to its first await
Destroy(e) ==
    /\ budget.ends > 0
    /\ AppRuns(e)
    /\ budget' = [budget EXCEPT !.ends = @ - 1]
    /\ Commit(e, terminate(St(e), "", "destroy"), Ret("destroy", e, 0, TRUE, ""), 0)

\* the oldest suspended terminate() is resumed (a promise job: after the
\* process.nextTick queue)
Resume(e) ==
    /\ term[e] # <<>>
    /\ ticks[e] = <<>>
    /\ Commit(e, terminateResume(St(e)), RetNone, 0)
    /\ UNCHANGED budget

\* the carrier's "close" event at e: socketCloseFn terminates the multiplexer, unless
\* terminate() has detached it.  Nothing e sends from now on reaches the peer.
SocketClose(e) ==
    /\ budget.ends > 0
    /\ socket[e].open
    /\ Idle(e)
    /\ budget' = [budget EXCEPT !.ends = @ - 1]
    /\ socket' = [socket EXCEPT ![e].open = FALSE]
    /\ Effects(e, IF closed[e] THEN St(e)
                  ELSE terminate(St(e), ERR_WS_SOCKET_CLOSED_UNEXPECTEDLY, "fatal"),
               RetNone, 0, FALSE)
    /\ UNCHANGED sock

\* one unit of time passes at e, up to the moment its keep-alive timer is due
TimePass(e) ==
    /\ ~closed[e]
    /\ Idle(e)
    /\ socket[e].sinceCheck < KeepAliveMs
    /\ socket' = [socket EXCEPT ![e].sinceCheck = @ + 1, ![e].sincePong = @ + 1]
    /\ ret' = RetNone
    /\ UNCHANGED <<maxChannels, closed, openChannels, openRemoteChannels, net, ticks,
                   sendCbs, log, term, events, sock, wire, budget>>

\* peerKeepAlive() that takes the peer for dead only beyond the threshold
KeepAlive_Beyond(e) ==
    /\ ~closed[e]
    /\ Idle(e)
    /\ socket[e].sinceCheck = KeepAliveMs
    /\ socket[e].pings < MaxPings
    /\ socket' = [socket EXCEPT ![e].sinceCheck = 0, ![e].pings = @ + 1]
    /\ Effects(e, IF socket[e].sincePong > AliveThresholdMs
                  THEN terminate(St(e), ERR_WS_PING_TIMEOUT, "fatal")
                  ELSE St(e),
               RetNone, 0, socket[e].open)
    /\ UNCHANGED <<budget, sock>>

\* the keep-alive timer fires: peerKeepAlive() pings and checks the time since the last pong
KeepAlive(e) ==
    /\ ~closed[e]
    /\ Idle(e)
    /\ socket[e].sinceCheck = KeepAliveMs
    /\ socket[e].pings < MaxPings
    /\ socket' = [socket EXCEPT ![e].sinceCheck = 0, ![e].pings = @ + 1]
    /\ Effects(e, IF socket[e].sincePong >= AliveThresholdMs
                  THEN terminate(St(e), ERR_WS_PING_TIMEOUT, "fatal")
                  ELSE St(e),
               RetNone, 0, socket[e].open)
    /\ UNCHANGED <<budget, sock>>

\* the carrier's "pong" event at e: onPong notes the time, unless terminate() has detached it
Pong(e) ==
    /\ socket[e].open
    /\ socket[e].pings > 0
    /\ Idle(e)
    /\ socket' = [socket EXCEPT ![e].pings = @ - 1,
                                ![e].sincePong = IF closed[e] THEN @ ELSE 0]
    /\ ret' = RetNone
    /\ UNCHANGED <<maxChannels, closed, openChannels, openRemoteChannels, net, ticks,
                   sendCbs, log, term, events, sock, wire, budget>>

\* the ids an application passes when it is not bound to its open channels
ChannelIds == 1..MaxChannels + 1

\* the local ids of e's open channels
OpenIds(e) == {c \in DOMAIN openChannels[e] : openChannels[e][c].dstChannel > 0}

Next ==
    \E e \in Endpoints :
        \/ Open(e)
        \/ \E c \in OpenIds(e) : Close(e, c)
        \/ \E c \in OpenIds(e), d \in DataSet : Send(e, c, d)
        \/ \E c \in OpenIds(e), stop \in BOOLEAN : FlowControl(e, c, stop)
        \/ Deliver(e)
        \/ Tick(e)
        \/ SendDone(e)
        \/ \E c \in DOMAIN openChannels[e] : AckTimeout(e, c)

\* both applications open channels and close, send on and pause their open channels, in any order
Spec == Init /\ [][Next]_vars

(* ---- handshakes only: the applications call nothing but open() and no timer expires ---- *)
InitOpen ==
    /\ Fresh
    /\ maxChannels \in [Endpoints -> 1..MaxOpensOnly]
    /\ budget = [opens |-> MaxOpensOnly, msgs |-> 0, raw |-> 0, ends |-> 0]

NextOpen ==
    \E e \in Endpoints :
        \/ Open(e)
        \/ Deliver(e)
        \/ Tick(e)
        \/ SendDone(e)

SpecOpen == InitOpen /\ [][NextOpen]_vars

(* ---- a peer that calls sendMessage directly, as the tests do:
        any message may arrive, whatever the peer's tables say ---- *)
\* the messages such a peer sends: every type, with the ids sendMessage's callers use
\* (channel ids from CHANNEL_MIN up; dst 0 in an OPEN or in the CLOSE for a context
\* without peer id; src 0 in a CLOSE without source channel), a CLOSE with or without
\* an error payload
RawFrames ==
    { Frame(t, d, s, <<>>, "") :
        t \in {MESSAGE_ACK, MESSAGE_PAUSE, MESSAGE_RESUME},
        d \in 1..MaxChannels, s \in 1..MaxChannels }
    \cup { Frame(MESSAGE_OPEN, 0, s, <<>>, "") : s \in 1..MaxChannels }
    \cup { Frame(MESSAGE_DATA, d, s, <<1>>, "") : d \in 1..MaxChannels, s \in 1..MaxChannels }
    \cup { Frame(MESSAGE_CLOSE, d, s, <<>>, err) :
             d \in 0..MaxChannels, s \in 0..MaxChannels, err \in {"", ERR_WSM_NO_CHANNELS} }

\* the peer of e calls sendMessage(type, dst, src, ...) itself
RawSend(e, f) ==
    /\ budget.raw > 0
    /\ budget' = [budget EXCEPT !.raw = @ - 1]
    /\ net' = [net EXCEPT ![e] = Append(@, f)]
    /\ ret' = RetNone
    /\ UNCHANGED <<maxChannels, closed, openChannels, openRemoteChannels, ticks, sendCbs, log,
                   term, events, socket, sock, wire>>

InitRaw ==
    /\ Fresh
    /\ maxChannels = [e \in Endpoints |-> MaxChannels]
    /\ budget = [opens |-> MaxOpensRaw, msgs |-> 0, raw |-> MaxRaw, ends |-> 0]

NextRaw ==
    \E e \in Endpoints :
        \/ Open(e)
        \/ Deliver(e)
        \/ Tick(e)
        \/ SendDone(e)
        \/ \E f \in RawFrames : RawSend(e, f)

SpecRaw == InitRaw /\ [][NextRaw]_vars

(* ---- opening, closing and ack timers, with the event loop's progress:
        queued process.nextTick callbacks run and an armed timer expires unless it is cleared ---- *)
InitTimer ==
    /\ Fresh
    /\ maxChannels = [e \in Endpoints |-> MaxChannels]
    /\ budget = [opens |-> MaxOpens, msgs |-> 0, raw |-> 0, ends |-> 0]

NextTimer ==
    \E e \in Endpoints :
        \/ Open(e)
        \/ \E c \in OpenIds(e) : Close(e, c)
        \/ Deliver(e)
        \/ Tick(e)
        \/ SendDone(e)
        \/ \E c \in DOMAIN openChannels[e] : AckTimeout(e, c)

SpecTimer ==
    /\ InitTimer
    /\ [][NextTimer]_vars
    /\ \A e \in Endpoints :
         /\ WF_vars(Tick(e))
         /\ WF_vars(\E c \in 1..CHANNEL_MAX : AckTimeout(e, c))

(* ---- handshakes and ack timers, with applications that also try to accept, with
        open({dstChannel}), a peer channel that has been accepted already ---- *)
InitAccept ==
    /\ Fresh
    /\ maxChannels = [e \in Endpoints |-> MaxChannels]
    /\ budget = [opens |-> MaxOpensAccept, msgs |-> 0, raw |-> 0, ends |-> 0]

NextAccept ==
    \E e \in Endpoints :
        \/ Open(e)
        \/ \E d \in DOMAIN openRemoteChannels[e] : OpenDst(e, d)
        \/ Deliver(e)
        \/ Tick(e)
        \/ SendDone(e)
        \/ \E c \in DOMAIN openChannels[e] : AckTimeout(e, c)

SpecAccept == InitAccept /\ [][NextAccept]_vars

(* ---- applications that call close, send and flowControl with any channel id,
        whether the channel is open, still opening or absent ---- *)
InitApi ==
    /\ Fresh
    /\ maxChannels = [e \in Endpoints |-> MaxChannels]
    /\ budget = [opens |-> MaxOpensApi, msgs |-> MaxMsgsApi, raw |-> 0, ends |-> 0]

NextApi ==
    \E e \in Endpoints :
        \/ Open(e)
        \/ \E c \in ChannelIds : Close(e, c)
        \/ \E c \in ChannelIds, d \in DataSet : Send(e, c, d)
        \/ \E c \in ChannelIds, stop \in BOOLEAN : FlowControl(e, c, stop)
        \/ Deliver(e)
        \/ Tick(e)
        \/ SendDone(e)
        \/ \E c \in DOMAIN openChannels[e] : AckTimeout(e, c)

SpecApi == InitApi /\ [][NextApi]_vars

(* ---- tables of any capacity, 0 included (the tests set maxChannels to 0 on a
        constructed multiplexer): handshakes and ack timers ---- *)
InitCap ==
    /\ Fresh
    /\ maxChannels \in [Endpoints -> 0..MaxChannels]
    /\ budget = [opens |-> MaxOpensCap, msgs |-> 0, raw |-> 0, ends |-> 0]

NextCap ==
    \E e \in Endpoints :
        \/ Open(e)
        \/ Deliver(e)
        \/ Tick(e)
        \/ SendDone(e)
        \/ \E c \in DOMAIN openChannels[e] : AckTimeout(e, c)

SpecCap == InitCap /\ [][NextCap]_vars

(* ---- applications that send payloads of one byte and of HelloLen bytes on any
        channel id, and close their channels ---- *)
Payloads == { [i \in 1..n |-> i] : n \in {1, HelloLen} }

InitCount ==
    /\ Fresh
    /\ maxChannels = [e \in Endpoints |-> MaxChannels]
    /\ budget = [opens |-> MaxOpensCount, msgs |-> MaxMsgsCount, raw |-> 0, ends |-> 0]

NextCount ==
    \E e \in Endpoints :
        \/ Open(e)
        \/ \E c \in OpenIds(e) : Close(e, c)
        \/ \E c \in ChannelIds, d \in Payloads : Send(e, c, d)
        \/ Deliver(e)
        \/ Tick(e)
        \/ SendDone(e)
        \/ \E c \in DOMAIN openChannels[e] : AckTimeout(e, c)

SpecCount == InitCount /\ [][NextCount]_vars

(* ---- sessions that end: destroy(), a carrier that closes, a peer that does
        not answer pings, a message of an unsupported version; queued
        process.nextTick callbacks run and a suspended terminate() is resumed ---- *)
\* the message of another version that the tests put on the carrier
BadFrames == { [Frame(MESSAGE_DATA, 1, 1, <<>>, "") EXCEPT !.version = VERSION_1] }

InitFatal ==
    /\ Fresh
    /\ maxChannels = [e \in Endpoints |-> MaxChannels]
    /\ budget = [opens |-> MaxOpensFatal, msgs |-> 0, raw |-> MaxRawFatal, ends |-> MaxEndsFatal]

\* the endpoint whose keep-alive clock is followed
Timed == "A"

NextFatal ==
    \/ \E e \in Endpoints :
          \/ Open(e)
          \/ Deliver(e)
          \/ Tick(e)
          \/ Destroy(e)
          \/ Resume(e)
          \/ SocketClose(e)
          \/ \E f \in BadFrames : RawSend(e, f)
    \/ TimePass(Timed)
    \/ KeepAlive(Timed)

SpecFatal ==
    /\ InitFatal
    /\ [][NextFatal]_vars
    /\ \A e \in Endpoints : WF_vars(Tick(e)) /\ WF_vars(Resume(e))

(* ---- keep-alive: time passes, the timer fires every KeepAliveMs, and the peer's
        pongs arrive or do not ---- *)
InitAlive ==
    /\ Fresh
    /\ maxChannels = [e \in Endpoints |-> MaxChannels]
    /\ budget = [opens |-> MaxOpensAlive, msgs |-> 0, raw |-> 0, ends |-> 0]

NextAlive ==
    \/ \E e \in Endpoints :
          \/ Open(e)
          \/ Deliver(e)
          \/ Tick(e)
          \/ Resume(e)
    \/ TimePass(Timed)
    \/ KeepAlive(Timed)
    \/ Pong(Timed)

SpecAlive == InitAlive /\ [][NextAlive]_vars

(* ---- applications that call destroy() and, without waiting for it, go on
        opening channels; handshakes and ack timers ---- *)
InitEnd ==
    /\ Fresh
    /\ maxChannels = [e \in Endpoints |-> MaxChannels]
    /\ budget = [opens |-> MaxOpensEnd, msgs |-> 0, raw |-> 0, ends |-> MaxEndsEnd]

NextEnd ==
    \E e \in Endpoints :
        \/ Open(e)
        \/ Deliver(e)
        \/ Tick(e)
        \/ \E c \in DOMAIN openChannels[e] : AckTimeout(e, c)
        \/ Destroy(e)
        \/ Resume(e)

SpecEnd == InitEnd /\ [][NextEnd]_vars

\* the same applications, with every frame on the carrier eventually handled, every
\* nextTick callback eventually run and every suspended terminate() eventually resumed
SpecEndLive ==
    /\ InitEnd
    /\ [][NextEnd]_vars
    /\ \A e \in Endpoints : WF_vars(Deliver(e)) /\ WF_vars(Tick(e)) /\ WF_vars(Resume(e))

(* ---- a session whose endpoint Timed closes, by destroy(), by its keep-alive or with
        its carrier, and whose application and carrier go on after that: the API with
        any channel id, frames, pongs and the carrier's close ---- *)
InitClosed ==
    /\ Fresh
    /\ maxChannels = [e \in Endpoints |-> MaxChannels]
    /\ budget = [opens |-> MaxOpensClosed, msgs |-> MaxMsgsClosed, raw |-> 0,
                 ends |-> MaxEndsClosed]

NextClosed ==
    \/ \E e \in Endpoints :
        \/ Open(e)
        \/ Deliver(e)
        \/ Tick(e)
        \/ Resume(e)
    \/ Destroy(Timed)
    \/ SocketClose(Timed)
    \/ Pong(Timed)
    \/ TimePass(Timed)
    \/ KeepAlive(Timed)
    \/ /\ closed[Timed]
       /\ \E c \in ChannelIds :
            \/ Close(Timed, c)
            \/ \E d \in DataSet : Send(Timed, c, d)
            \/ \E stop \in BOOLEAN : FlowControl(Timed, c, stop)

SpecClosed == InitClosed /\ [][NextClosed]_vars

(* ---- the codec: encodeHeader and decodeMessage on bytes ---- *)
\* a number of up to 33 bits as two 16-bit halves, hi * 2^16 + lo
Wide(hi, lo) == [hi |-> hi, lo |-> lo]
ToWide(n) == Wide(n \div 65536, n % 65536)

\* Math.pow(2, 32), the largest id allocateChannel may return
CHANNEL_MAX_WIDE == Wide(65536, 0)

\* the length of the header
HEADER_LENGTH == 16

\* Buffer.writeUInt16BE / writeUInt32BE: the bytes, or <<>> when the value is out of
\* range and the call throws
writeUInt16BE(v) == IF v \in 0..65535 THEN <<v \div 256, v % 256>> ELSE <<>>
writeUInt32BE(w) ==
    IF w.hi \in 0..65535 /\ w.lo \in 0..65535
    THEN <<w.hi \div 256, w.hi % 256, w.lo \div 256, w.lo % 256>>
    ELSE <<>>

\* a + b
AddWide(a, b) == Wide(a.hi + b.hi + (a.lo + b.lo) \div 65536, (a.lo + b.lo) % 65536)

\* w >= n, for a small n
WideGE(w, n) == w.hi > 0 \/ w.lo >= n

\* a Buffer: its bytes in order, as runs of equal bytes, so that a buffer of 2^31 bytes
\* can be written down
Run(byte, count) == [byte |-> byte, count |-> count]
FromBytes(bytes) == [i \in 1..Len(bytes) |-> Run(bytes[i], Wide(0, 1))]

\* Buffer.alloc(size)
Alloc(size) == <<Run(0, size)>>

RECURSIVE Length(_)
\* Buffer.length
Length(buf) == IF buf = <<>> THEN Wide(0, 0) ELSE AddWide(Head(buf).count, Length(Tail(buf)))

RECURSIVE Take(_, _)
\* buf.subarray(0, n), for a small n
Take(buf, n) ==
    IF n = 0 \/ buf = <<>> THEN <<>>
    ELSE IF WideGE(Head(buf).count, n) THEN <<Run(Head(buf).byte, Wide(0, n))>>
    ELSE <<Head(buf)>> \o Take(Tail(buf), n - Head(buf).count.lo)

RECURSIVE Drop(_, _)
\* buf.subarray(n), for a small n
Drop(buf, n) ==
    IF n = 0 \/ buf = <<>> THEN buf
    ELSE IF WideGE(Head(buf).count, n)
    THEN LET c == Head(buf).count
             rest == IF c.lo >= n THEN Wide(c.hi, c.lo - n) ELSE Wide(c.hi - 1, c.lo + 65536 - n)
         IN IF rest = Wide(0, 0) THEN Tail(buf) ELSE <<Run(Head(buf).byte, rest)>> \o Tail(buf)
    ELSE Drop(Tail(buf), n - Head(buf).count.lo)

\* buf[i], 0-based, for an i within the buffer
ByteAt(buf, i) == Head(Drop(buf, i)).byte

RECURSIVE Bytes(_)
\* the bytes of a buffer one by one, runs of equal bytes joined: what Buffer.equals compares
Bytes(buf) ==
    IF buf = <<>> THEN <<>>
    ELSE IF Head(buf).count = Wide(0, 0) THEN Bytes(Tail(buf))
    ELSE LET rest == Bytes(Tail(buf)) IN
         IF rest # <<>> /\ Head(rest).byte = Head(buf).byte
         THEN <<Run(Head(buf).byte, AddWide(Head(buf).count, Head(rest).count))>> \o Tail(rest)
         ELSE <<Head(buf)>> \o rest

\* Buffer.readUInt16BE / readUInt32BE at a 0-based offset: the value, or -1 / Wide(-1, 0)
\* when the read runs past the end of the buffer and the call throws
readUInt16BE(buf, off) ==
    IF ~WideGE(Length(buf), off + 2) THEN -1
    ELSE ByteAt(buf, off) * 256 + ByteAt(buf, off + 1)

\* readUInt32BE that takes the two low bytes only
readUInt32BE_Low(buf, off) ==
    IF ~WideGE(Length(buf), off + 4) THEN Wide(-1, 0)
    ELSE Wide(0, ByteAt(buf, off + 2) * 256 + ByteAt(buf, off + 3))

readUInt32BE(buf, off) ==
    IF ~WideGE(Length(buf), off + 4) THEN Wide(-1, 0)
    ELSE Wide(ByteAt(buf, off) * 256 + ByteAt(buf, off + 1),
              ByteAt(buf, off + 2) * 256 + ByteAt(buf, off + 3))

RECURSIVE Concat(_)
\* Buffer.concat
Concat(chunks) == IF chunks = <<>> THEN <<>> ELSE Head(chunks) \o Concat(Tail(chunks))

RECURSIVE TotalLength(_)
\* the loop of encodeHeader over an array of buffers
TotalLength(chunks) ==
    IF chunks = <<>> THEN Wide(0, 0)
    ELSE AddWide(Length(Head(chunks)), TotalLength(Tail(chunks)))

\* data: the buffers handed over (one for a single Buffer, none for undefined)
encodeHeader(type, destChannel, sourceChannel, data) ==
    LET dataLength == TotalLength(data)
        version == writeUInt16BE(VERSION_2)
        t == writeUInt16BE(type)
        d == writeUInt32BE(destChannel)
        s == writeUInt32BE(sourceChannel)
        l == writeUInt32BE(dataLength)
    IN IF <<>> \in {version, t, d, s, l}
       THEN [ok |-> FALSE, header |-> <<>>, dataLength |-> dataLength]
       ELSE [ok |-> TRUE, header |-> FromBytes(version \o t \o d \o s \o l),
             dataLength |-> dataLength]

NoHeader == [version |-> 0, type |-> 0, dstChannel |-> Wide(0, 0), srcChannel |-> Wide(0, 0),
             length |-> Wide(0, 0)]

decodeMessage(chunk) ==
    LET headerBuffer == Take(chunk, HEADER_LENGTH)
        header == [version |-> readUInt16BE(headerBuffer, 0),
                   type |-> readUInt16BE(headerBuffer, 2),
                   dstChannel |-> readUInt32BE(headerBuffer, 4),
                   srcChannel |-> readUInt32BE(headerBuffer, 8),
                   length |-> readUInt32BE(headerBuffer, 12)]
    IN IF \/ header.version = -1 \/ header.type = -1
          \/ Wide(-1, 0) \in {header.dstChannel, header.srcChannel, header.length}
       THEN [ok |-> FALSE, header |-> NoHeader, data |-> <<>>]
       ELSE [ok |-> TRUE, header |-> header, data |-> Drop(chunk, HEADER_LENGTH)]

\* the message types, channel ids and payloads the codec is tried on: the ends of each
\* field's range, the byte boundaries, and Math.pow(2, 32); no payload, an empty buffer,
\* one buffer, two buffers, a buffer of 2^32 - 1 bytes and two buffers of 2^31 bytes
TypeSamples == {0, MESSAGE_DATA, MESSAGE_RESUME, 255, 256, 65535}
IdSamples == {Wide(0, 0), Wide(0, 1), Wide(0, 255), Wide(0, 256), Wide(0, 65535), Wide(1, 0),
              Wide(65535, 65535), CHANNEL_MAX_WIDE}
PayloadSamples ==
    {<<>>, <<FromBytes(<<>>)>>, <<FromBytes(<<65>>)>>, <<FromBytes(<<65, 66>>), FromBytes(<<67>>)>>,
     <<Alloc(Wide(65535, 65535))>>, <<Alloc(Wide(32768, 0)), Alloc(Wide(32768, 0))>>}

InitCodec ==
    /\ Fresh_Mux
    /\ maxChannels = [e \in Endpoints |-> MaxChannels]
    /\ budget = [opens |-> 0, msgs |-> 0, raw |-> 0, ends |-> 0]
    /\ \E t \in TypeSamples, d \in IdSamples, s \in IdSamples, p \in PayloadSamples :
         wire = [phase |-> "input", type |-> t, dstChannel |-> d, srcChannel |-> s, data |-> p]

CodecStep(w) ==
    /\ wire' = w
    /\ ret' = RetNone
    /\ UNCHANGED <<maxChannels, closed, openChannels, openRemoteChannels, net, ticks,
                   sendCbs, log, term, events, socket, sock, budget>>

\* encodeHeader on the input, and the header and the payload put on the carrier as one message
Encode ==
    /\ wire.phase = "input"
    /\ LET h == encodeHeader(wire.type, wire.dstChannel, wire.srcChannel, wire.data) IN
       CodecStep([phase |-> IF h.ok THEN "encoded" ELSE "threw", in |-> wire, enc |-> h,
                  bytes |-> h.header \o Concat(wire.data)])

\* decodeMessage on the message
Decode ==
    /\ wire.phase = "encoded"
    /\ CodecStep([phase |-> "decoded", in |-> wire.in, enc |-> wire.enc, bytes |-> wire.bytes,
                  msg |-> decodeMessage(wire.bytes)])

\* encodeHeader on what was decoded
Reencode ==
    /\ wire.phase = "decoded"
    /\ wire.msg.ok
    /\ CodecStep([phase |-> "reencoded", in |-> wire.in, enc |-> wire.enc, msg |-> wire.msg,
                  again |-> encodeHeader(wire.msg.header.type, wire.msg.header.dstChannel,
                                         wire.msg.header.srcChannel, <<wire.msg.data>>)])

\* decodeMessage on the first n bytes of the message, n less than the header's length
DecodeShort(n) ==
    /\ wire.phase = "encoded"
    /\ CodecStep([phase |-> "short", in |-> wire.in, bytes |-> Take(wire.bytes, n),
                  msg |-> decodeMessage(Take(wire.bytes, n))])

NextCodec ==
    \/ Encode
    \/ Decode
    \/ Reencode
    \/ \E n \in 0..HEADER_LENGTH - 1 : DecodeShort(n)

SpecCodec == InitCodec /\ [][NextCodec]_vars

(* ---- WebSocketMultiplexSocket: the Duplex adapter of one channel ----
   X = [S, k]: the multiplexer's state while a handler runs and the adapters created at
   the endpoint; adapter i was given to open() as the callbacks of context instance i.
   Of stream.Duplex the adapter carries what decides when _write, _writev and _read are
   called: constructed, corked, writing and the buffered writes (wq) of the writable
   side; the buffered chunks (rq) and reading of the readable side. *)
NewSock ==
    [channel |-> 0, dstChannel |-> 0, readyState |-> "closed", destroyed |-> FALSE,
     streamDestroyed |-> FALSE, ended |-> FALSE, constructed |-> FALSE, writer |-> "bufferedWrite", writeBuffer |-> <<>>,
     wq |-> <<>>, corked |-> 0, writing |-> FALSE,
     readBuffer |-> <<>>, readBufferSize |-> 0, wantData |-> FALSE, rq |-> <<>>,
     reading |-> FALSE, timeout |-> 0, timeoutTimer |-> -1, emitted |-> <<>>,
     seen |-> 0, wrote |-> <<>>, sent |-> <<>>, got |-> <<>>, quiet |-> 0, quietHanded |-> 0]

\* this.emit(name)
sockEmit(X, i, name) == [X EXCEPT !.k[i].emitted = Append(@, name)]

\* resetTimeout(): the timer is cleared, and armed again when a timeout is set
resetTimeout(X, i) ==
    [X EXCEPT !.k[i].timeoutTimer = IF X.k[i].timeout > 0 THEN X.k[i].timeout ELSE -1]

\* the adapter saw an open or inbound data
Activity(X, i) == [X EXCEPT !.k[i].quiet = 0, !.k[i].quietHanded = 0]

\* the consumer called write()
Called(X, i) == [X EXCEPT !.k[i].quiet = 0]

\* the stream handed a write to _write or _writev
Handed(X, i) == [X EXCEPT !.k[i].quietHanded = 0]

\* the last callback queued with process.nextTick is the one handed over by adapter i
OwnTick(S, i, kind) ==
    [S EXCEPT !.ticks[Len(S.ticks)] = [kind |-> kind, inst |-> i, arg |-> @.arg, code |-> @.code]]

\* wsm.send(channel, data, callback) for the adapter: the DATA goes out and the carrier
\* owes the callback, or the callback is queued with the error
sockSend(X, i, data) ==
    LET r == send(X.S, X.k[i].channel, data) IN
    IF r.ok THEN [X EXCEPT !.S = r.S, !.k[i].sent = Append(@, data)]
    ELSE IF X.S.closed
    THEN [X EXCEPT !.S.ticks = Append(@, [kind |-> "writeCb", inst |-> i,
                                          arg |-> X.k[i].channel, code |-> ERR_WS_SOCKED_CLOSED])]
    ELSE [X EXCEPT !.S = OwnTick(r.S, i, "writeCb")]

\* _write / _writev: data is the buffer, or the buffers of _writev joined
sockWrite(X, i, data) ==
    LET X1 == [X EXCEPT !.k[i].writing = TRUE]
        X2 == IF X1.k[i].writer = "bufferedWrite"
              THEN [X1 EXCEPT !.k[i].writeBuffer = Append(@, data)]
              ELSE sockSend(X1, i, data)
    IN Handed(resetTimeout(X2, i), i)

RECURSIVE Joined(_)
\* the chunks of a _writev go out as the fragments of one message
Joined(chunks) == IF chunks = <<>> THEN <<>> ELSE Head(chunks) \o Joined(Tail(chunks))

\* Writable's clearBuffer: the buffered writes go to _write, or to _writev when there are several
clearBuffer(X, i) ==
    LET a == X.k[i] IN
    IF a.corked > 0 \/ a.writing \/ a.streamDestroyed \/ ~a.constructed \/ a.wq = <<>> THEN X
    ELSE sockWrite([X EXCEPT !.k[i].wq = <<>>], i, Joined(a.wq))

\* Writable.write that puts a write it has to buffer in front of the earlier ones
sockWritable_write_Front(X, i, data) ==
    LET a == X.k[i]
        X1 == [X EXCEPT !.k[i].wrote = Append(@, data)]
    IN IF a.writing \/ a.corked > 0 \/ ~a.constructed
       THEN [X1 EXCEPT !.k[i].wq = <<data>> \o @]
       ELSE sockWrite(X1, i, data)

\* Writable.write(data): to _write at once, or buffered while the stream is not
\* constructed, is corked or has a write in flight
sockWritable_write(X, i, data) ==
    LET a == X.k[i]
        X1 == [X EXCEPT !.k[i].wrote = Append(@, data)]
    IN IF a.writing \/ a.corked > 0 \/ ~a.constructed
       THEN [X1 EXCEPT !.k[i].wq = Append(@, data)]
       ELSE sockWrite(X1, i, data)

RECURSIVE flushWriteBuffer(_, _)
flushWriteBuffer(X, i) ==
    IF X.k[i].writeBuffer = <<>> THEN X
    ELSE flushWriteBuffer(sockSend([X EXCEPT !.k[i].writeBuffer = Tail(@)], i,
                                   Head(X.k[i].writeBuffer)), i)

RECURSIVE Size(_)
\* the bytes in a queue of buffers
Size(q) == IF q = <<>> THEN 0 ELSE Len(Head(q)) + Size(Tail(q))

\* Readable.push(data): the chunk is buffered for the consumer; the answer is whether
\* the stream asks for more
sockPush(X, i, data) ==
    IF X.k[i].destroyed THEN [X |-> X, res |-> FALSE]
    ELSE LET X1 == [X EXCEPT !.k[i].rq = Append(@, data), !.k[i].reading = FALSE] IN
         [X |-> X1, res |-> Size(X1.k[i].rq) < HighWaterMark]

RECURSIVE flush_KeepsSize(_, _)
\* flush that leaves readBufferSize as it was
flush_KeepsSize(X, i) ==
    IF X.k[i].readBuffer = <<>> THEN X
    ELSE LET data == Head(X.k[i].readBuffer)
             X1 == [X EXCEPT !.k[i].readBuffer = Tail(@)]
             p == sockPush(X1, i, data)
             X2 == [p.X EXCEPT !.k[i].wantData = p.res]
         IN IF p.res THEN flush_KeepsSize(X2, i) ELSE X2

RECURSIVE flush(_, _)
flush(X, i) ==
    IF X.k[i].readBuffer = <<>> THEN X
    ELSE LET data == Head(X.k[i].readBuffer)
             X1 == [X EXCEPT !.k[i].readBuffer = Tail(@),
                             !.k[i].readBufferSize = @ - Len(data)]
             p == sockPush(X1, i, data)
             X2 == [p.X EXCEPT !.k[i].wantData = p.res]
         IN IF p.res THEN flush(X2, i) ELSE X2

\* wsm.flowControl(channel, stop, callback): without a callback nothing is queued when it fails
sockFlowControl(X, i, stop, withCallback) ==
    LET r == flowControl(X.S, X.k[i].channel, stop) IN
    IF r.ok THEN [X EXCEPT !.S = r.S]
    ELSE IF ~withCallback THEN X
    ELSE IF X.S.closed THEN sockEmit(X, i, "error")
    ELSE [X EXCEPT !.S = OwnTick(r.S, i, "flowCb")]

sock_read(X, i) ==
    LET X1 == [X EXCEPT !.k[i].wantData = TRUE, !.k[i].reading = TRUE]
        X2 == IF X1.k[i].readBufferSize > 0 THEN flush(X1, i) ELSE X1
    IN sockFlowControl(X2, i, FALSE, FALSE)

sockOnOpen(X, i, dstChannel) ==
    LET X1 == [X EXCEPT !.k[i].dstChannel = dstChannel, !.k[i].readyState = "open"]
        X2 == [flushWriteBuffer(X1, i) EXCEPT !.k[i].writer = "send"]
        X3 == [X2 EXCEPT !.S.ticks = Append(@, [kind |-> "construct", inst |-> i, arg |-> 0,
                                                code |-> ""])]
    IN Activity(resetTimeout(sockEmit(sockEmit(X3, i, "connect"), i, "ready"), i), i)

\* onData that leaves the timer running
sockOnData_NoReset(X, i, data) ==
    LET X1 == [X EXCEPT !.k[i].readBuffer = Append(@, data),
                        !.k[i].readBufferSize = @ + Len(data)]
        X2 == IF X1.k[i].wantData THEN flush(X1, i) ELSE X1
        X3 == IF X2.k[i].readBufferSize > HighWaterMark
              THEN sockFlowControl(X2, i, TRUE, TRUE)
              ELSE X2
    IN Activity(X3, i)

sockOnData(X, i, data) ==
    LET X1 == [X EXCEPT !.k[i].readBuffer = Append(@, data),
                        !.k[i].readBufferSize = @ + Len(data)]
        X2 == IF X1.k[i].wantData THEN flush(X1, i) ELSE X1
        X3 == IF X2.k[i].readBufferSize > HighWaterMark
              THEN sockFlowControl(X2, i, TRUE, TRUE)
              ELSE X2
    IN Activity(resetTimeout(X3, i), i)

\* cork() and uncork()
sockOnFlowControl(X, i, stop) ==
    IF stop THEN [X EXCEPT !.k[i].corked = @ + 1]
    ELSE IF X.k[i].corked = 0 THEN X
    ELSE clearBuffer([X EXCEPT !.k[i].corked = @ - 1], i)

sockOnError(X, i) == IF X.k[i].destroyed THEN X ELSE sockEmit(X, i, "error")

\* _destroy, after which the stream emits close
sock_destroy(X, i) ==
    IF X.k[i].destroyed THEN X
    ELSE LET X1 == [X EXCEPT !.k[i].timeoutTimer = -1, !.k[i].destroyed = TRUE,
                             !.k[i].streamDestroyed = TRUE, !.k[i].readyState = "closed"]
         IN sockEmit([X1 EXCEPT !.S = close(X1.S, X1.k[i].channel).S], i, "close")

\* onClose: end(), and destroy() once the writable side has finished, which it does when
\* it is constructed and nothing is buffered or in flight
sockOnClose(X, i) ==
    LET X1 == [X EXCEPT !.k[i].ended = TRUE] IN
    IF X.k[i].streamDestroyed THEN X
    ELSE IF X1.k[i].constructed /\ ~X1.k[i].writing /\ X1.k[i].wq = <<>>
    THEN sock_destroy(sockEmit(X1, i, "finish"), i)
    ELSE X1

\* the adapter's answer to a callback of its context
sockCallback(X, i, ev) ==
    CASE ev.cb = "open" -> sockOnOpen(X, i, ev.arg)
      [] ev.cb = "data" -> sockOnData(X, i, ev.data)
      [] ev.cb = "flow" -> sockOnFlowControl(X, i, ev.arg = 1)
      [] ev.cb = "error" -> sockOnError(X, i)
      [] ev.cb = "close" -> sockOnClose(X, i)
      [] OTHER -> X

\* the local id of context instance i, 0 when the context is gone
ChannelOf(S, i) ==
    IF \E c \in DOMAIN S.oc : S.oc[c].inst = i
    THEN CHOOSE c \in DOMAIN S.oc : S.oc[c].inst = i
    ELSE 0

RECURSIVE sockReact(_)
\* The adapters answer the callbacks the handler made.  Every context is installed by
\* the connect() of a new adapter (createConnection, or handleOpenMessage's accept); the
\* callbacks of open, data and flow control are the last statement of their handlers,
\* so the adapter's answer follows the handler's own effects.
sockReact(X) ==
    IF Len(X.k) < Len(X.S.log)
    THEN sockReact([X EXCEPT !.k = Append(@, [NewSock EXCEPT
                                     !.channel = ChannelOf(X.S, Len(X.k) + 1),
                                     !.readyState = "opening"])])
    ELSE IF \E i \in 1..Len(X.k) : X.k[i].seen < Len(X.S.log[i])
    THEN LET i == CHOOSE j \in 1..Len(X.k) :
                     /\ X.k[j].seen < Len(X.S.log[j])
                     /\ \A h \in 1..(j - 1) : X.k[h].seen = Len(X.S.log[h])
             ev == X.S.log[i][X.k[i].seen + 1]
         IN sockReact(sockCallback([X EXCEPT !.k[i].seen = @ + 1], i, ev))
    ELSE X

\* endpoint e and its adapters as a handler finds them
XOf(e) == [S |-> St(e), k |-> sock[e]]

\* the handler's effects and the adapters' answers become the endpoint's state
SockEffects(e, X, consumed) ==
    LET Y == sockReact(X) IN
    /\ Effects(e, Y.S, RetNone, consumed, socket[e].open)
    /\ sock' = [sock EXCEPT ![e] = Y.k]
    /\ UNCHANGED socket

\* wsm.createConnection({}, ...): a new adapter connects
SockConnect(e) ==
    /\ budget.opens > 0
    /\ AppRuns(e)
    /\ budget' = [budget EXCEPT !.opens = @ - 1]
    /\ SockEffects(e, [XOf(e) EXCEPT !.S = open(St(e), FALSE, 0, maxChannels[e]).S], 0)

\* the carrier's "message" event at an endpoint whose channels are adapters
SockDeliver(e) ==
    /\ net[e] # <<>>
    /\ Idle(e)
    /\ socket[e].open
    /\ ~closed[e]
    /\ SockEffects(e, [XOf(e) EXCEPT !.S = onMessage(St(e), Head(net[e]), maxChannels[e])], 1)
    /\ UNCHANGED budget

\* a write's callback got an error: the stream is destroyed with it
sockWriteFailed(X, i) == sock_destroy(sockOnError(X, i), i)

\* the oldest process.nextTick callback runs: the deferred onOpen of an accepted channel,
\* the stream's construction after constructCallback(), the callback of a failed send or
\* flowControl
SockTick(e) ==
    /\ ticks[e] # <<>>
    /\ LET t == Head(ticks[e])
           X == [XOf(e) EXCEPT !.S.ticks = Tail(@)]
       IN SockEffects(e,
              CASE t.kind = "onOpen" -> [X EXCEPT !.S = Deliver_cb(X.S, t.inst, EvOpen(t.arg))]
                [] t.kind = "construct" ->
                       IF X.k[t.inst].streamDestroyed
                       THEN sock_destroy([X EXCEPT !.k[t.inst].constructed = TRUE], t.inst)
                       ELSE clearBuffer([X EXCEPT !.k[t.inst].constructed = TRUE], t.inst)
                [] t.kind = "writeCb" -> sockWriteFailed(X, t.inst)
                [] t.kind = "flowCb" -> sockEmit(X, t.inst, "error")
                [] OTHER -> X,
              0)
    /\ UNCHANGED budget

\* the adapters that exist at e and are neither ended nor destroyed
LiveSocks(e) ==
    { i \in 1..Len(sock[e]) :
        ~sock[e][i].destroyed /\ ~sock[e][i].streamDestroyed /\ ~sock[e][i].ended }

\* sock.write(data) by the consumer; the n-th write of an adapter carries <<n>>
SockWrite(e, i) ==
    /\ i \in LiveSocks(e)
    /\ AppRuns(e)
    /\ budget.msgs > 0
    /\ budget' = [budget EXCEPT !.msgs = @ - 1]
    /\ SockEffects(e, Called(sockWritable_write(XOf(e), i, <<Len(sock[e][i].wrote) + 1>>), i), 0)

\* the carrier reports the DATA of the write in flight as sent: the write's callback
\* runs and the stream goes on with what it buffered meanwhile
SockWriteDone(e, i) ==
    /\ i \in 1..Len(sock[e])
    /\ sock[e][i].writing
    /\ sock[e][i].writer = "send"
    /\ ~sock[e][i].destroyed
    /\ Idle(e)
    /\ LET X == clearBuffer([XOf(e) EXCEPT !.k[i].writing = FALSE], i)
       IN SockEffects(e, IF X.k[i].ended /\ ~X.k[i].writing
                         THEN sock_destroy(sockEmit(X, i, "finish"), i)
                         ELSE X, 0)
    /\ UNCHANGED budget

\* the stream calls _read: it is constructed, no _read is outstanding and less than
\* the high-water mark is buffered for the consumer
SockRead(e, i) ==
    /\ i \in 1..Len(sock[e])
    /\ sock[e][i].constructed
    /\ ~sock[e][i].reading
    /\ ~sock[e][i].destroyed
    /\ Size(sock[e][i].rq) < HighWaterMark
    /\ AppRuns(e)
    /\ SockEffects(e, sock_read(XOf(e), i), 0)
    /\ UNCHANGED budget

\* the consumer takes the oldest chunk the stream buffered for it
SockConsume(e, i) ==
    /\ i \in 1..Len(sock[e])
    /\ sock[e][i].rq # <<>>
    /\ AppRuns(e)
    /\ SockEffects(e, [XOf(e) EXCEPT !.k[i].rq = Tail(@),
                                     !.k[i].got = Append(@, Head(sock[e][i].rq))], 0)
    /\ UNCHANGED budget

\* sock.setTimeout(ms)
sockSetTimeout(X, i, ms) ==
    LET X1 == [X EXCEPT !.k[i].timeout = ms] IN
    IF X1.k[i].readyState = "open" THEN resetTimeout(X1, i) ELSE X1

SockSetTimeout(e, i, ms) ==
    /\ i \in 1..Len(sock[e])
    /\ AppRuns(e)
    /\ budget.ends > 0
    /\ budget' = [budget EXCEPT !.ends = @ - 1]
    /\ SockEffects(e, sockSetTimeout(XOf(e), i, ms), 0)

\* sock.setKeepAlive(enable)
SockSetKeepAlive(e, i, enable) ==
    /\ i \in 1..Len(sock[e])
    /\ AppRuns(e)
    /\ budget.ends > 0
    /\ budget' = [budget EXCEPT !.ends = @ - 1]
    /\ SockEffects(e, IF enable THEN sockSetTimeout(XOf(e), i, 0) ELSE XOf(e), 0)

\* one unit of time passes at e; a timer that is due fires first
SockTimePass(e) ==
    /\ budget.raw > 0
    /\ Idle(e)
    /\ \A i \in 1..Len(sock[e]) : sock[e][i].timeoutTimer # 0
    /\ budget' = [budget EXCEPT !.raw = @ - 1]
    /\ SockEffects(e, [XOf(e) EXCEPT !.k = [i \in 1..Len(sock[e]) |->
                          [sock[e][i] EXCEPT !.timeoutTimer = IF @ > 0 THEN @ - 1 ELSE @,
                                             !.quiet = IF @ < MaxSockTime THEN @ + 1 ELSE @,
                                             !.quietHanded = IF @ < MaxSockTime THEN @ + 1 ELSE @]]], 0)

\* the adapter's timer expires: 'timeout' is emitted
SockTimeoutFire(e, i) ==
    /\ i \in 1..Len(sock[e])
    /\ sock[e][i].timeoutTimer = 0
    /\ Idle(e)
    /\ SockEffects(e, sockEmit([XOf(e) EXCEPT !.k[i].timeoutTimer = -1], i, "timeout"), 0)
    /\ UNCHANGED budget

\* one adapter pair on an open carrier: A connects, B's multiplexer accepts
InitSock ==
    /\ Fresh
    /\ maxChannels = [e \in Endpoints |-> MaxChannels]
    /\ budget = [opens |-> MaxSocks, msgs |-> MaxWrites, raw |-> 0, ends |-> 0]

NextSock ==
    \/ SockConnect("A")
    \/ \E e \in Endpoints :
        \/ SockDeliver(e)
        \/ SockTick(e)
        \/ \E i \in 1..MaxSocks :
            \/ SockWrite(e, i)
            \/ SockWriteDone(e, i)
            \/ SockRead(e, i)
            \/ SockConsume(e, i)

SpecSock == InitSock /\ [][NextSock]_vars

\* an adapter pair whose end at A has its inactivity timer followed
InitSockTimed ==
    /\ Fresh
    /\ maxChannels = [e \in Endpoints |-> MaxChannels]
    /\ budget = [opens |-> MaxSocks, msgs |-> MaxWritesTimed, raw |-> MaxSockTime,
                 ends |-> MaxSetTimeouts]

NextSockTimed ==
    \/ SockConnect("A")
    \/ \E e \in Endpoints :
        \/ SockDeliver(e)
        \/ SockTick(e)
        \/ \E i \in 1..MaxSocks :
            \/ SockWrite(e, i)
            \/ SockWriteDone(e, i)
    \/ \E i \in 1..MaxSocks :
        \/ \E ms \in {0, SockTimeoutMs} : SockSetTimeout("A", i, ms)
        \/ \E enable \in BOOLEAN : SockSetKeepAlive("A", i, enable)
        \/ SockTimeoutFire("A", i)
    \/ SockTimePass("A")

SpecSockTimed == InitSockTimed /\ [][NextSockTimed]_vars

(* ---- applications that accept channels themselves, with open({dstChannel}) ---- *)
\* the application's code runs at e between two callbacks of the event loop: the
\* process.nextTick queue is empty, or holds only what the code's own last call queued
AppSync(e) == ticks[e] = <<>> \/ (ret.op # "" /\ ret.e = e)

InitDefer ==
    /\ Fresh
    /\ maxChannels = [e \in Endpoints |-> MaxChannels]
    /\ budget = [opens |-> MaxOpensDefer, msgs |-> 0, raw |-> 0, ends |-> MaxEndsDefer]

NextDefer ==
    \E e \in Endpoints :
        \/ AppSync(e) /\ Open(e)
        \/ AppSync(e) /\ \E d \in 1..MaxChannels : OpenDst(e, d)
        \/ AppSync(e) /\ \E c \in 1..MaxChannels : Close(e, c)
        \/ AppSync(e) /\ Destroy(e)
        \/ Deliver(e)
        \/ Tick(e)
        \/ Resume(e)

SpecDefer == InitDefer /\ [][NextDefer]_vars

(* ---- messages that are ignored: the carrier's "message" event with the bytes
        it carries ---- *)
\* the header fields of a decoded message without payload, as the handlers read them
FrameOf(msg) ==
    [version |-> msg.header.version, type |-> msg.header.type,
     dstChannel |-> msg.header.dstChannel.lo, srcChannel |-> msg.header.srcChannel.lo,
     data |-> <<>>, err |-> ""]

\* onMessage that takes a message it cannot decode for one of an unsupported version
onMessageChunk_Fatal(S, m, max) ==
    IF "chunk" \in DOMAIN m
    THEN LET msg == decodeMessage(m.chunk) IN
         IF ~msg.ok THEN terminate(S, ERR_WSM_UNSUPPORTED_PROTOCOL_VERSION, "fatal")
         ELSE onMessage(S, FrameOf(msg), max)
    ELSE onMessage(S, m, max)

\* onMessage from its first line: decodeMessage on the bytes, return when it fails
\* (a message kept as its fields has been decoded)
onMessageChunk(S, m, max) ==
    IF "chunk" \in DOMAIN m
    THEN LET msg == decodeMessage(m.chunk) IN
         IF ~msg.ok THEN S ELSE onMessage(S, FrameOf(msg), max)
    ELSE onMessage(S, m, max)

\* headers of CLOSE messages and of messages of types the protocol does not have,
\* whole and cut short
IgnoreChunks ==
    { [chunk |-> Take(encodeHeader(t, Wide(0, d), Wide(0, 1), <<>>).header, n)] :
        t \in {0, MESSAGE_CLOSE, 7}, d \in 1..MaxChannels, n \in {0, 3, 15, HEADER_LENGTH} }

\* CLOSE messages with a payload, as the tests send them
IgnoreFrames ==
    { Frame(MESSAGE_CLOSE, d, 1, <<>>, "hello") : d \in 1..MaxChannels }

\* the carrier's "message" event on bytes; ret records what arrived: whether it was
\* decoded, its dstChannel and its type
Message(e) ==
    /\ net[e] # <<>>
    /\ Idle(e)
    /\ socket[e].open
    /\ LET m == Head(net[e])
           f == IF "chunk" \in DOMAIN m
                THEN LET msg == decodeMessage(m.chunk) IN
                     IF msg.ok THEN FrameOf(msg) ELSE Frame(0, 0, 0, <<>>, "")
                ELSE m
           ok == "chunk" \in DOMAIN m => decodeMessage(m.chunk).ok
       IN Commit(e, IF closed[e] THEN St(e) ELSE onMessageChunk(St(e), m, maxChannels[e]),
                 Ret("message", e, f.dstChannel, ok, ToString(f.type)), 1)
    /\ UNCHANGED budget

InitIgnore ==
    /\ Fresh
    /\ maxChannels = [e \in Endpoints |-> MaxChannels]
    /\ budget = [opens |-> MaxOpensIgnore, msgs |-> 0, raw |-> MaxRawIgnore, ends |-> 0]

NextIgnore ==
    \E e \in Endpoints :
        \/ Open(e)
        \/ Message(e)
        \/ Tick(e)
        \/ SendDone(e)
        \/ \E m \in IgnoreChunks \cup IgnoreFrames : RawSend(e, m)

SpecIgnore == InitIgnore /\ [][NextIgnore]_vars

(* ---- allocateChannel on tables of any shape: ids as decimal numerals, so that
        Math.pow(2, 32) and the string order of Object.keys().sort() are exact ---- *)
\* CHANNEL_MAX = Math.pow(2, 32) = 4294967296, most significant digit first
CHANNEL_MAX_DEC == <<4, 2, 9, 4, 9, 6, 7, 2, 9, 6>>

RECURSIVE DecInc(_)
\* n + 1
DecInc(n) ==
    IF n = <<>> THEN <<1>>
    ELSE LET front == SubSeq(n, 1, Len(n) - 1)  last == n[Len(n)] IN
         IF last = 9 THEN Append(DecInc(front), 0) ELSE Append(front, last + 1)

\* a <= b as numbers
DecLE(a, b) == Len(a) < Len(b) \/ (Len(a) = Len(b) /\ (a = b \/ SeqLess(a, b)))

\* (n + 1) without the wrap-around
DecStart_NoWrap(n) == DecInc(n)

\* (n % CHANNEL_MAX) + 1 for an n up to CHANNEL_MAX (<<>> is 0)
DecStart(n) == IF n = CHANNEL_MAX_DEC THEN <<1>> ELSE DecInc(n)

\* the last element of Object.keys(openChannels).sort(): the keys are strings
DecLastKey(keys) == CHOOSE k \in keys : \A j \in keys \ {k} : SeqLess(j, k)

RECURSIVE DecProbe(_, _, _, _)
\* for (i = 0; openChannels[channel] != undefined && i < maxChannels; i++) channel++
DecProbe(keys, channel, i, max) ==
    IF channel \in keys /\ i < max THEN DecProbe(keys, DecInc(channel), i + 1, max) ELSE channel

\* allocateChannel on the keys of openChannels; a failed assert throws
allocateChannelDec(keys, max) ==
    IF Cardinality(keys) >= max THEN [channel |-> <<>>, err |-> Err(ERR_WSM_NO_CHANNELS)]
    ELSE LET start == DecStart(IF keys = {} THEN <<>> ELSE DecLastKey(keys))
             channel == DecProbe(keys, start, 0, max)
         IN IF DecLE(<<1>>, channel) /\ DecLE(channel, CHANNEL_MAX_DEC) /\ channel \notin keys
            THEN [channel |-> channel, err |-> NoErr]
            ELSE [channel |-> <<>>, err |-> Err(ERR_ASSERTION)]

\* the ids the tables are made of: small ones, ones around a change in the number of
\* digits, and the ones at CHANNEL_MAX
AllocIds ==
    {<<1>>, <<2>>, <<3>>, <<4>>, <<5>>, <<6>>, <<9>>, <<1, 0>>, <<1, 1>>,
     <<4, 2, 9, 4, 9, 6, 7, 2, 9, 5>>, CHANNEL_MAX_DEC}

\* a table of allocated ids and a maxChannels option
InitAlloc ==
    /\ Fresh_Mux
    /\ maxChannels = [e \in Endpoints |-> MaxChannels]
    /\ budget = [opens |-> 0, msgs |-> 0, raw |-> 0, ends |-> 0]
    /\ \E keys \in SUBSET AllocIds, max \in 1..MaxChannelsAlloc :
         /\ Cardinality(keys) <= MaxKeysAlloc
         /\ wire = [phase |-> "table", keys |-> keys, max |-> max]

\* allocateChannel is called
Allocate ==
    /\ wire.phase = "table"
    /\ CodecStep([phase |-> "allocated", keys |-> wire.keys, max |-> wire.max,
                  got |-> allocateChannelDec(wire.keys, wire.max)])

NextAlloc == Allocate

SpecAlloc == InitAlloc /\ [][NextAlloc]_vars

(* ---- sendMessage frame by frame: the carrier's send(bytes, {fin}) calls, and the
        carrier putting the frames of a message together again ---- *)
\* one socket.send call: the bytes and the fin option
CarrierFrame(data, fin) == [data |-> data, fin |-> fin]

\* sendMessage that ends the carrier's message with the header
sendMessageFrames_HeaderFin(type, dst, src, data) ==
    LET h == encodeHeader(type, Wide(0, dst), Wide(0, src), data.bufs) IN
    IF ~data.given THEN <<CarrierFrame(h.header, TRUE)>>
    ELSE <<CarrierFrame(h.header, TRUE)>>
         \o [i \in 1..Len(data.bufs) - 1 |-> CarrierFrame(data.bufs[i], FALSE)]
         \o <<CarrierFrame(IF data.bufs = <<>> THEN <<>> ELSE data.bufs[Len(data.bufs)], TRUE)>>

\* the socket.send calls of sendMessage on an open carrier. data.given: data is not
\* undefined; data.bufs: its buffers (a single Buffer is made an array of one); the
\* carrier sends no bytes for the undefined last element of an empty array
sendMessageFrames(type, dst, src, data) ==
    LET h == encodeHeader(type, Wide(0, dst), Wide(0, src), data.bufs) IN
    IF ~data.given THEN <<CarrierFrame(h.header, TRUE)>>
    ELSE <<CarrierFrame(h.header, FALSE)>>
         \o [i \in 1..Len(data.bufs) - 1 |-> CarrierFrame(data.bufs[i], FALSE)]
         \o <<CarrierFrame(IF data.bufs = <<>> THEN <<>> ELSE data.bufs[Len(data.bufs)], TRUE)>>

\* the index of the first frame with fin, 0 when there is none
FirstFin(frames) ==
    IF \E i \in 1..Len(frames) : frames[i].fin
    THEN CHOOSE i \in 1..Len(frames) : frames[i].fin /\ \A j \in 1..i - 1 : ~frames[j].fin
    ELSE 0

\* the payloads sendMessage is called with: none, an empty array, "A", ["A", "BC"],
\* ["A", "", "BC"]
FramedPayloads ==
    { [given |-> FALSE, bufs |-> <<>>], [given |-> TRUE, bufs |-> <<>>],
      [given |-> TRUE, bufs |-> <<FromBytes(<<65>>)>>],
      [given |-> TRUE, bufs |-> <<FromBytes(<<65>>), FromBytes(<<66, 67>>)>>],
      [given |-> TRUE, bufs |-> <<FromBytes(<<65>>), FromBytes(<<>>), FromBytes(<<66, 67>>)>>] }

FramedMessages ==
    { [type |-> t, dst |-> 1, src |-> 2, data |-> p] :
        t \in {MESSAGE_DATA, MESSAGE_CLOSE},
        p \in {q \in FramedPayloads : Len(q.bufs) <= MaxSegments} }

\* todo: the sendMessage calls to come; sent: the ones made; all: every frame handed to
\* the carrier; carrier: the frames on their way; got: the messages the peer's
\* "message" event carried, decoded
InitFrames ==
    /\ Fresh_Mux
    /\ maxChannels = [e \in Endpoints |-> MaxChannels]
    /\ budget = [opens |-> 0, msgs |-> 0, raw |-> 0, ends |-> 0]
    /\ \E todo \in [1..MaxFramed -> FramedMessages] :
         wire = [phase |-> "frames", todo |-> todo, sent |-> <<>>, all |-> <<>>,
                 carrier |-> <<>>, got |-> <<>>]

\* sendMessage runs from its first socket.send to its last
SendFrames ==
    /\ wire.phase = "frames"
    /\ wire.todo # <<>>
    /\ LET m == Head(wire.todo)
           frames == sendMessageFrames(m.type, m.dst, m.src, m.data)
       IN CodecStep([wire EXCEPT !.todo = Tail(@), !.sent = Append(@, m),
                                 !.all = @ \o frames, !.carrier = @ \o frames])

\* the peer's carrier has a whole message: the frames up to the first with fin,
\* joined, and hands it to onMessage, which decodes it
ReceiveFrames ==
    /\ wire.phase = "frames"
    /\ FirstFin(wire.carrier) > 0
    /\ LET n == FirstFin(wire.carrier)
           chunk == Concat([i \in 1..n |-> wire.carrier[i].data])
       IN CodecStep([wire EXCEPT !.carrier = SubSeq(@, n + 1, Len(@)),
                                 !.got = Append(@, decodeMessage(chunk))])

NextFrames == SendFrames \/ ReceiveFrames

SpecFrames == InitFrames /\ [][NextFrames]_vars

(* ---- CLOSE messages whose payload is an error code, and ones whose payload is
        some other text ---- *)
RemoteFrames ==
    { Frame(MESSAGE_CLOSE, d, s, <<>>, err) :
        d \in 1..MaxChannels, s \in 1..MaxChannels,
        err \in {"hello", ERR_WSM_CHANNEL_NOT_OPEN, ERR_WS_PING_TIMEOUT} }

InitRemote ==
    /\ Fresh
    /\ maxChannels = [e \in Endpoints |-> MaxChannels]
    /\ budget = [opens |-> MaxOpensRemote, msgs |-> 0, raw |-> MaxRawRemote, ends |-> 0]

NextRemote ==
    \E e \in Endpoints :
        \/ Open(e)
        \/ Deliver(e)
        \/ Tick(e)
        \/ SendDone(e)
        \/ \E f \in RemoteFrames : RawSend(e, f)

SpecRemote == InitRemote /\ [][NextRemote]_vars

(* ---- adapters destroyed by their application ---- *)
\* stream.destroy(): the stream is marked destroyed at once; _destroy runs at once on a
\* constructed stream, and on one still under construction when its construct callback
\* has been handled (the "construct" tick)
sockDestroy(X, i) ==
    IF X.k[i].streamDestroyed THEN X
    ELSE LET X1 == [X EXCEPT !.k[i].streamDestroyed = TRUE] IN
         IF X1.k[i].constructed THEN sock_destroy(X1, i) ELSE X1

\* the application destroys adapter i of e
SockDestroy(e, i) ==
    /\ i \in 1..Len(sock[e])
    /\ ~sock[e][i].streamDestroyed
    /\ AppRuns(e)
    /\ Idle(e)
    /\ budget.ends > 0
    /\ budget' = [budget EXCEPT !.ends = @ - 1]
    /\ SockEffects(e, sockDestroy(XOf(e), i), 0)

\* the ack timer of an opening channel expires; its onError is the adapter's
SockAckTimeout(e, channel) ==
    /\ Has(openChannels[e], channel)
    /\ openChannels[e][channel].ackTimeout
    /\ Idle(e)
    /\ LET S == St(e)
           S1 == Deliver_cb(S, S.oc[channel].inst, EvError(Err(ERR_WSM_OPEN_CHANNEL_TIMEOUT)))
       IN SockEffects(e, [XOf(e) EXCEPT !.S = [S1 EXCEPT !.oc = Del(@, channel)]], 0)
    /\ UNCHANGED budget

InitSockEnd ==
    /\ Fresh
    /\ maxChannels = [e \in Endpoints |-> MaxChannels]
    /\ budget = [opens |-> MaxSocks, msgs |-> MaxWritesEnd, raw |-> 0, ends |-> MaxSockEnds]

NextSockEnd ==
    \/ SockConnect("A")
    \/ \E e \in Endpoints :
        \/ SockDeliver(e)
        \/ SockTick(e)
        \/ \E c \in 1..MaxChannels : SockAckTimeout(e, c)
        \/ \E i \in 1..MaxSocks :
            \/ SockWrite(e, i)
            \/ SockWriteDone(e, i)
            \/ SockRead(e, i)
            \/ SockDestroy(e, i)

SpecSockEnd == InitSockEnd /\ [][NextSockEnd]_vars

(* ======================= claims ======================= *)
\* the callbacks delivered so far to the context installed at e's local id c
LogOf(e, c) == log[e][openChannels[e][c].inst]

\* e handles an inbound message of the given type in this step
Handles(e, type) == Deliver(e) /\ Head(net[e]).type = type

\* in this step every context of e other than those in `except` keeps its callbacks
OtherLogsKept(e, except) ==
    \A i \in 1..Len(log[e]) : i \in except \/ log'[e][i] = log[e][i]

\* on_open was the first callback of the context installed at e's local id c
Opened(e, c) ==
    /\ Has(openChannels[e], c)
    /\ LogOf(e, c) # <<>>
    /\ LogOf(e, c)[1].cb = "open"

\* e's context d is open towards the peer's id c, in both of e's tables
Counterparts(e, d, c) ==
    /\ Has(openChannels[e], d)
    /\ openChannels[e][d].dstChannel = c
    /\ Has(openRemoteChannels[e], c)
    /\ openRemoteChannels[e][c] = d

\* e's context d and the peer's context c are the two ends of one completed handshake
Established(e, d, c) ==
    /\ Counterparts(e, d, c)
    /\ Counterparts(Peer(e), c, d)
    /\ Opened(e, d)
    /\ Opened(Peer(e), c)

\* C1: a DATA message sent on an established channel is delivered to on_data of the
\* receiver's counterpart context and to no other, bytesRead grows by the payload length,
\* and the delivery closes nothing - whatever the two local ids are.
C1_DataDelivered ==
    [][\A e \in Endpoints :
        LET f == Head(net[e]) IN
        (Handles(e, MESSAGE_DATA) /\ Established(e, f.dstChannel, f.srcChannel))
        => /\ Has(openChannels'[e], f.dstChannel)
           /\ log'[e][openChannels[e][f.dstChannel].inst]
                 = Append(LogOf(e, f.dstChannel), EvData(f.data))
           /\ OtherLogsKept(e, {openChannels[e][f.dstChannel].inst})
           /\ openChannels'[e][f.dstChannel].bytesRead
                 = openChannels[e][f.dstChannel].bytesRead + Len(f.data)
           /\ DOMAIN openChannels'[e] = DOMAIN openChannels[e]
           /\ net'[Peer(e)] = net[Peer(e)]]_vars

\* nothing is on the carrier and no deferred callback is waiting
Quiet == \A e \in Endpoints : net[e] = <<>> /\ ticks[e] = <<>>

\* C2: under any interleaving of initiating open() calls, a context with dstChannel b > 0
\* is the one openRemoteChannels names for b, and on_open is delivered at most once, with
\* the context's dstChannel; once every OPEN, ACK and CLOSE has been handled every context
\* is open, the peer's context b points back at it through both of the peer's tables, and
\* each side got exactly one on_open carrying the other side's id.
C2_HandshakeTables ==
    \A e \in Endpoints : \A a \in DOMAIN openChannels[e] :
        LET b == openChannels[e][a].dstChannel IN
        /\ b > 0 => Counterparts(e, a, b)
        /\ LogOf(e, a) \in {<<>>, <<EvOpen(b)>>}
        /\ Quiet => /\ b > 0
                    /\ Counterparts(Peer(e), b, a)
                    /\ LogOf(e, a) = <<EvOpen(b)>>

Installed(e, i) == \E c \in DOMAIN openChannels[e] : openChannels[e][c].inst = i

\* C4: DATA(dst = d, src = s) for an existing context d whose dstChannel is not s is not
\* delivered to on_data; d and the local channel openRemoteChannels records for s both
\* get on_error(ChannelMismatch) then on_close and leave both tables, and a CLOSE
\* carrying ChannelMismatch is sent for each of them.
C4_MismatchTearsDown ==
    [][\A e \in Endpoints :
        LET f == Head(net[e])
            d == f.dstChannel
            s == f.srcChannel
            torn == {d} \cup (IF Has(openRemoteChannels[e], s)
                                 /\ Has(openChannels[e], openRemoteChannels[e][s])
                              THEN {openRemoteChannels[e][s]} ELSE {})
            mismatch == Err(ERR_WSM_CHANNEL_MISMATCH)
        IN
        (Handles(e, MESSAGE_DATA) /\ Has(openChannels[e], d)
             /\ openChannels[e][d].dstChannel # s)
        => /\ \A c \in torn :
                LET i == openChannels[e][c].inst IN
                /\ log'[e][i] = log[e][i] \o <<EvError(mismatch), EvClose(c)>>
                /\ ~Has(openChannels'[e], c)
                /\ ~Has(openRemoteChannels'[e], openChannels[e][c].dstChannel)
                /\ \E k \in Len(net[Peer(e)]) + 1 .. Len(net'[Peer(e)]) :
                     net'[Peer(e)][k] = Frame(MESSAGE_CLOSE, openChannels[e][c].dstChannel,
                                              c, <<>>, ERR_WSM_CHANNEL_MISMATCH)
           /\ OtherLogsKept(e, {openChannels[e][c].inst : c \in torn})
           /\ Len(net'[Peer(e)]) = Len(net[Peer(e)]) + Cardinality(torn)]_vars

\* the callbacks delivered to the i-th context e installed name on_close last, and only once
ClosedLast(l) ==
    /\ l # <<>>
    /\ l[Len(l)].cb = "close"
    /\ \A k \in 1..Len(l) - 1 : l[k].cb # "close"

\* C5: for every context ever installed, once it has left openChannels the last callback
\* it got is on_close, so every on_error came before it; and a context never gets a
\* callback after its on_close.
C5_CloseIsLast ==
    \A e \in Endpoints : \A i \in 1..Len(log[e]) :
        /\ ~Installed(e, i) => ClosedLast(log[e][i])
        /\ \A k \in 1..Len(log[e][i]) - 1 : log[e][i][k].cb # "close"

\* C6: on_data and on_flow_control reach a context only after its on_open and before its
\* on_close: every data or flow-control callback in a context's history has on_open
\* before it and no on_close before it.
C6_OnlyWhileOpen ==
    \A e \in Endpoints : \A i \in 1..Len(log[e]) :
        \A k \in 1..Len(log[e][i]) :
            log[e][i][k].cb \in {"data", "flow"}
            => /\ \E j \in 1..k - 1 : log[e][i][j].cb = "open"
               /\ \A j \in 1..k - 1 : log[e][i][j].cb # "close"

\* on_error(OpenChannelTimeout)
EvTimeout == EvError(Err(ERR_WSM_OPEN_CHANNEL_TIMEOUT))

\* the ack timer of e's channel c is armed
TimerPending(e, c) == Has(openChannels[e], c) /\ openChannels[e][c].ackTimeout

\* what a context's history may hold while, or when, its ack timer runs out:
\* no on_open (ACK), no on_close (CLOSE, teardown) and no other error
NothingSettled(l) == \A j \in 1..Len(l) : l[j].cb \notin {"open", "close", "error"}

C8_NoChannelsRejected ==
    [][\A e \in Endpoints :
        LET f == Head(net[e]) IN
        /\ (Handles(e, MESSAGE_OPEN)
                /\ Cardinality(DOMAIN openChannels[e]) >= maxChannels[e]
                /\ ~Has(openRemoteChannels[e], f.srcChannel))
           => /\ openChannels'[e] = openChannels[e]
              /\ log'[e] = log[e]
              /\ net'[Peer(e)] = Append(net[Peer(e)],
                     Frame(MESSAGE_CLOSE, f.srcChannel, 0, <<>>, ERR_WSM_NO_CHANNELS))
        /\ (Handles(e, MESSAGE_CLOSE) /\ f.err = ERR_WSM_NO_CHANNELS
                /\ TimerPending(e, f.dstChannel))
           => LET i == openChannels[e][f.dstChannel].inst IN
              /\ log'[e][i] = log[e][i]
                    \o <<EvError(ErrRemote(ERR_WSM_OPEN_CHANNEL_REJECTED, ERR_WSM_NO_CHANNELS)),
                         EvClose(f.dstChannel)>>
              /\ OtherLogsKept(e, {i})
              /\ ~Has(openChannels'[e], f.dstChannel)]_vars

\* C8 witness: an initiating open was rejected by a peer whose table was full
C8_Witness ==
    \E e \in Endpoints :
        /\ Cardinality(DOMAIN openChannels[Peer(e)]) = maxChannels[Peer(e)]
        /\ \E i \in 1..Len(log[e]) :
             /\ ~Installed(e, i)
             /\ \E c \in 1..CHANNEL_MAX :
                  log[e][i] = <<EvError(ErrRemote(ERR_WSM_OPEN_CHANNEL_REJECTED,
                                                  ERR_WSM_NO_CHANNELS)),
                                EvClose(c)>>

\* e handles an OPEN whose src is a key of openRemoteChannels: no context is created, the
\* local channel recorded for the src gets on_error(OpenChannelReuse) then on_close and is
\* removed, CLOSE(dst = src, src = 0) carrying OpenChannelReuse is sent with its completion
\* callback owed, and the src is no longer a key of openRemoteChannels when the context
\* torn down records it as its peer
ReuseRefused(e) ==
    LET f == Head(net[e]) IN
    (Handles(e, MESSAGE_OPEN) /\ Has(openRemoteChannels[e], f.srcChannel))
    => LET ch == openRemoteChannels[e][f.srcChannel] IN
       /\ DOMAIN openChannels'[e] = DOMAIN openChannels[e] \ {ch}
       /\ Len(log'[e]) = Len(log[e])
       /\ IF Has(openChannels[e], ch)
          THEN LET i == openChannels[e][ch].inst IN
               /\ log'[e][i] = log[e][i]
                     \o <<EvError(Err(ERR_WSM_OPEN_CHANNEL_REUSE)), EvClose(ch)>>
               /\ OtherLogsKept(e, {i})
          ELSE log'[e] = log[e]
       /\ net'[Peer(e)] = Append(net[Peer(e)],
              Frame(MESSAGE_CLOSE, f.srcChannel, 0, <<>>, ERR_WSM_OPEN_CHANNEL_REUSE))
       /\ sendCbs'[e] = Append(sendCbs[e], [dstChannel |-> f.srcChannel, srcChannel |-> 0])
       /\ (Has(openChannels[e], ch) /\ openChannels[e][ch].dstChannel = f.srcChannel)
          => ~Has(openRemoteChannels'[e], f.srcChannel)

\* e handles the CLOSE carrying OpenChannelReuse: the context it names gets
\* on_error(code, remote OpenChannelReuse) then on_close and leaves both tables
ReuseClosed(e, code) ==
    LET f == Head(net[e]) IN
    (Handles(e, MESSAGE_CLOSE) /\ f.err = ERR_WSM_OPEN_CHANNEL_REUSE
         /\ Has(openChannels[e], f.dstChannel))
    => LET i == openChannels[e][f.dstChannel].inst
           b == openChannels[e][f.dstChannel].dstChannel
       IN
       /\ log'[e][i] = log[e][i]
             \o <<EvError(ErrRemote(code, ERR_WSM_OPEN_CHANNEL_REUSE)), EvClose(f.dstChannel)>>
       /\ OtherLogsKept(e, {i})
       /\ ~Has(openChannels'[e], f.dstChannel)
       /\ b > 0 => ~Has(openRemoteChannels'[e], b)

\* open({dstChannel: d}) with d a key of openRemoteChannels returns the reuse error and
\* changes nothing
ReuseOpenDst(e) ==
    \A d \in DOMAIN openRemoteChannels[e] :
        OpenDst(e, d)
        => /\ ret' = Ret("open", e, 0, FALSE, ERR_WSM_OPEN_CHANNEL_REUSE)
           /\ UNCHANGED <<openChannels, openRemoteChannels, net, log, ticks, sendCbs>>

EndsClosedWith(l, err) ==
    /\ Len(l) >= 2
    /\ l[Len(l) - 1] = EvError(err)
    /\ l[Len(l)].cb = "close"

NotOpen(e, c) == ~Has(openChannels[e], c) \/ openChannels[e][c].dstChannel = 0

\* the deferred callback of a refused send or flowControl on channel c
RefusedCallback(c) ==
    [kind |-> "callback", inst |-> 0, arg |-> c, code |-> ERR_WSM_CHANNEL_NOT_OPEN]

\* C10: on a channel that is absent or still opening, close returns (false,
\* ChannelNotOpen) and changes nothing; send and flowControl return false and queue
\* their callback with ChannelNotOpen for the next tick and change nothing else: no
\* message is sent, no callback of any channel is delivered, and openChannels (with its
\* counters and ack timers) and openRemoteChannels stay as they are.
C10_NotOpenRefused ==
    [][\A e \in Endpoints : \A c \in ChannelIds :
        NotOpen(e, c)
        => /\ Close(e, c)
              => /\ ret' = Ret("close", e, c, FALSE, ERR_WSM_CHANNEL_NOT_OPEN)
                 /\ UNCHANGED <<openChannels, openRemoteChannels, net, log, ticks, sendCbs>>
           /\ \A d \in DataSet :
                Send(e, c, d)
                => /\ ret' = Ret("send", e, c, FALSE, ERR_WSM_CHANNEL_NOT_OPEN)
                   /\ ticks' = [ticks EXCEPT ![e] = Append(@, RefusedCallback(c))]
                   /\ UNCHANGED <<openChannels, openRemoteChannels, net, log, sendCbs>>
           /\ \A stop \in BOOLEAN :
                FlowControl(e, c, stop)
                => /\ ret' = Ret("flowControl", e, c, FALSE, ERR_WSM_CHANNEL_NOT_OPEN)
                   /\ ticks' = [ticks EXCEPT ![e] = Append(@, RefusedCallback(c))]
                   /\ UNCHANGED <<openChannels, openRemoteChannels, net, log, sendCbs>>]_vars

\* C10 witness: a send on a channel whose ack timer is still pending has just been
\* refused and its callback waits for the next tick
C10_Witness ==
    \E e \in Endpoints : \E c \in ChannelIds :
        /\ TimerPending(e, c)
        /\ ret = Ret("send", e, c, FALSE, ERR_WSM_CHANNEL_NOT_OPEN)
        /\ ticks[e] = <<RefusedCallback(c)>>

\* e handles a DATA, ACK, PAUSE or RESUME whose dst has no context
HandlesForAbsent(e) ==
    /\ Deliver(e)
    /\ Head(net[e]).type \in {MESSAGE_DATA, MESSAGE_ACK, MESSAGE_PAUSE, MESSAGE_RESUME}
    /\ ~Has(openChannels[e], Head(net[e]).dstChannel)

\* e handles a CLOSE carrying ChannelNotOpen whose dst has a context
HandlesNotOpenClose(e) ==
    /\ Handles(e, MESSAGE_CLOSE)
    /\ Head(net[e]).err = ERR_WSM_CHANNEL_NOT_OPEN
    /\ Has(openChannels[e], Head(net[e]).dstChannel)

\* C11: an endpoint that handles a DATA, ACK, PAUSE or RESUME whose dst has no context
\* delivers no callback, leaves openChannels and openRemoteChannels as they are and
\* sends CLOSE(dst = frame.src, src = 0) carrying ChannelNotOpen; the endpoint that
\* handles this CLOSE gives the context at its dst on_error(ChannelClosedByPeer with
\* remote ChannelNotOpen) then on_close, and removes it.
C11_AbsentAnswered ==
    [][\A e \in Endpoints :
        LET f == Head(net[e]) IN
        /\ HandlesForAbsent(e)
           => /\ UNCHANGED <<log, openChannels, openRemoteChannels>>
              /\ net'[Peer(e)] = Append(net[Peer(e)],
                     Frame(MESSAGE_CLOSE, f.srcChannel, 0, <<>>, ERR_WSM_CHANNEL_NOT_OPEN))
        /\ HandlesNotOpenClose(e)
           => LET i == openChannels[e][f.dstChannel].inst IN
              /\ log'[e][i] = log[e][i]
                    \o <<EvError(ErrRemote(ERR_WSM_CHANNEL_CLOSED_BY_PEER,
                                           ERR_WSM_CHANNEL_NOT_OPEN)),
                         EvClose(f.dstChannel)>>
              /\ OtherLogsKept(e, {i})
              /\ ~Has(openChannels'[e], f.dstChannel)]_vars

\* e's table is full
Full(e) == Cardinality(DOMAIN openChannels[e]) >= maxChannels[e]

\* the messages e's step puts on the carrier
Sent(e) == SubSeq(net'[Peer(e)], Len(net[Peer(e)]) + 1, Len(net'[Peer(e)]))

RECURSIVE DataBytes(_)
\* total length of the payloads on_data has handed over in callback history l
DataBytes(l) ==
    IF l = <<>> THEN 0
    ELSE DataBytes(Tail(l)) + (IF Head(l).cb = "data" THEN Len(Head(l).data) ELSE 0)

\* the context at e's local id c is the same one before and after this step
SameContext(e, c) ==
    /\ Has(openChannels[e], c)
    /\ Has(openChannels'[e], c)
    /\ openChannels'[e][c].inst = openChannels[e][c].inst

\* the context at e's local id c has been installed by this step
NewContext(e, c) ==
    /\ Has(openChannels'[e], c)
    /\ ~Has(openChannels[e], c) \/ openChannels[e][c].inst # openChannels'[e][c].inst

Emits(error) ==
    IF error = "" THEN <<Emitted("close", "", TRUE)>>
    ELSE <<Emitted("error", error, TRUE), Emitted("close", "", TRUE)>>

FatalCodes ==
    {ERR_WS_SOCKET_CLOSED_UNEXPECTEDLY, ERR_WS_PING_TIMEOUT, ERR_WSM_UNSUPPORTED_PROTOCOL_VERSION}

\* in this step the fatal condition of the given code occurs at e
FatalStep(e, code) ==
    \/ code = ERR_WS_SOCKET_CLOSED_UNEXPECTEDLY /\ SocketClose(e)
    \/ code = ERR_WS_PING_TIMEOUT /\ KeepAlive(e) /\ socket[e].sincePong >= AliveThresholdMs
    \/ code = ERR_WSM_UNSUPPORTED_PROTOCOL_VERSION /\ Deliver(e)
         /\ Head(net[e]).version # VERSION_2

\* this step of e belongs to a terminate(error): the call itself or its resumption
TerminateStep(e, error) ==
    \/ error = "" /\ Destroy(e)
    \/ FatalStep(e, error)
    \/ Resume(e) /\ Head(term[e]).error = error

\* a terminate(error) of e is suspended
Terminating(e, error) == \E i \in 1..Len(term[e]) : term[e][i].error = error

\* C13: every event is emitted with closed = true and every 'error' is followed at
\* once by 'close'.  Events are emitted only by a terminate(): 'error' with the code of
\* its fatal condition and then 'close', or 'close' alone for destroy().  A fatal
\* condition on a multiplexer that is not closed emits its events at once or leaves its
\* terminate() suspended; a suspended terminate() stays suspended until it emits its
\* events, and it does not stay suspended for ever.
C13_FatalEvents ==
    /\ [](\A e \in Endpoints : \A j \in 1..Len(events[e]) :
            /\ events[e][j].closed
            /\ events[e][j].ev = "error"
               => j < Len(events[e]) /\ events[e][j + 1].ev = "close")
    /\ [][\A e \in Endpoints :
            /\ events'[e] # events[e]
               => \E error \in FatalCodes \cup {""} :
                     /\ TerminateStep(e, error)
                     /\ events'[e] = events[e] \o Emits(error)
            /\ \A code \in FatalCodes :
                 (FatalStep(e, code) /\ ~closed[e])
                 => \/ events'[e] = events[e] \o Emits(code) /\ closed'[e]
                    \/ Terminating(e, code)'
            /\ \A error \in FatalCodes \cup {""} :
                 (Terminating(e, error) /\ ~Terminating(e, error)')
                 => events'[e] = events[e] \o Emits(error)]_vars
    /\ \A e \in Endpoints : term[e] # <<>> ~> term[e] = <<>>

\* C13 witness: one endpoint, terminated by a ping timeout while it had a channel, has
\* emitted 'error' with PingTimeout and then 'close'; the other, destroyed, has emitted
\* 'close' alone
C13_Witness ==
    /\ events[Timed] = Emits(ERR_WS_PING_TIMEOUT)
    /\ events[Peer(Timed)] = Emits("")
    /\ \E i \in 1..Len(log[Timed]) :
         log[Timed][i] # <<>> /\ log[Timed][i][Len(log[Timed][i])].cb = "close"

\* C14: every keep-alive check sends a ping; the check terminates the multiplexer with
\* PingTimeout exactly when the time since the last pong (since construction when there
\* was none) has reached AliveThresholdMs, and otherwise changes nothing else; a
\* multiplexer that has emitted PingTimeout has seen no pong for AliveThresholdMs, which
\* is more than one period.
C14_KeepAlive ==
    /\ [](\A e \in Endpoints :
            /\ KeepAliveMs < AliveThresholdMs
            /\ (events[e] # <<>> /\ events[e][1].code = ERR_WS_PING_TIMEOUT)
               => socket[e].sincePong >= AliveThresholdMs)
    /\ [][\A e \in Endpoints :
            KeepAlive(e)
            => /\ socket'[e].pings = socket[e].pings + 1
               /\ IF socket[e].sincePong >= AliveThresholdMs
                  THEN \/ events'[e] = events[e] \o Emits(ERR_WS_PING_TIMEOUT) /\ closed'[e]
                       \/ Terminating(e, ERR_WS_PING_TIMEOUT)'
                  ELSE UNCHANGED <<closed, events, term, openChannels, openRemoteChannels,
                                   net, log>>]_vars

\* C14 witness: no pong has arrived (the ping of the constructor and those of two checks
\* are unanswered) and the second check, AliveThresholdMs after construction, has
\* terminated the multiplexer with PingTimeout
C14_Witness ==
    /\ events[Timed] = Emits(ERR_WS_PING_TIMEOUT)
    /\ socket[Timed].pings = 3
    /\ socket[Timed].sincePong = AliveThresholdMs
    /\ AliveThresholdMs = 2 * KeepAliveMs

\* e has emitted 'error' with the given code
HasFailed(e, code) ==
    \E j \in 1..Len(events[e]) : events[e][j].ev = "error" /\ events[e][j].code = code

\* C15: an endpoint sends nothing in the step in which it handles a message whose
\* version is not VERSION_2, nothing while the terminate() that this started is
\* suspended or resumed, and nothing once it has emitted UnsupportedProtocolVersion.
C15_SilentAfterBadVersion ==
    [][\A e \in Endpoints :
        (\/ FatalStep(e, ERR_WSM_UNSUPPORTED_PROTOCOL_VERSION) /\ ~closed[e]
         \/ Terminating(e, ERR_WSM_UNSUPPORTED_PROTOCOL_VERSION)
         \/ HasFailed(e, ERR_WSM_UNSUPPORTED_PROTOCOL_VERSION))
        => net'[Peer(e)] = net[Peer(e)]]_vars

\* how many elements of sequence l satisfy: their field cb/ev equals name
CountEv(l, name) == Cardinality({j \in 1..Len(l) : l[j].ev = name})
CountCb(l, name) == Cardinality({j \in 1..Len(l) : l[j].cb = name})

\* C16: a multiplexer emits 'close' at most once, and once when it is closed, and
\* 'error' at most once; no context gets on_close twice; and a destroy() on a
\* multiplexer that is closed or whose terminate() is suspended is a no-op: it sends
\* nothing, delivers and emits nothing, and suspends no second terminate().
C16_TerminatesOnce ==
    /\ [](\A e \in Endpoints :
            /\ CountEv(events[e], "close") = (IF closed[e] THEN 1 ELSE 0)
            /\ CountEv(events[e], "error") <= 1
            /\ \A i \in 1..Len(log[e]) : CountCb(log[e][i], "close") <= 1)
    /\ [][\A e \in Endpoints :
            (Destroy(e) /\ (closed[e] \/ term[e] # <<>>))
            => UNCHANGED <<closed, openChannels, openRemoteChannels, net, log, events, term>>]_vars

\* C17: a closed multiplexer has empty openChannels and openRemoteChannels, and every
\* context it ever had has got on_close or has been removed; open() on a closed
\* multiplexer delivers on_error(SocketClosed) to the new context and leaves the
\* tables as they are.
C17_ClosedMeansEmpty ==
    /\ [](\A e \in Endpoints :
            closed[e] => openChannels[e] = EmptyMap /\ openRemoteChannels[e] = EmptyMap)
    /\ [][\A e \in Endpoints :
            (Open(e) /\ closed[e])
            => /\ Len(log'[e]) = Len(log[e]) + 1
               /\ log'[e][Len(log'[e])] = <<EvError(Err(ERR_WS_SOCKED_CLOSED))>>
               /\ UNCHANGED <<openChannels, openRemoteChannels, net>>]_vars

\* the contexts of e whose counterpart is a channel of the other endpoint
Paired(e) == { c \in DOMAIN openChannels[e] : openChannels[e][c].dstChannel # 0 }

\* C18: once an endpoint has been destroyed (the carrier stays up) its peer eventually
\* holds no channel of the session: no context with a counterpart and no entry in
\* openRemoteChannels, also for a context the peer created by accepting an OPEN whose
\* ACK the destroyed endpoint had not handled.
C18_PeerReleased ==
    \A e \in Endpoints :
        closed[e] ~> (Paired(Peer(e)) = {} /\ openRemoteChannels[Peer(e)] = EmptyMap)

\* s is what is left of t after messages were taken from its head
IsSuffix(s, t) ==
    /\ Len(s) <= Len(t)
    /\ \A i \in 1..Len(s) : s[i] = t[i + Len(t) - Len(s)]

\* what a multiplexer holds and has told its application
Held(e) ==
    <<closed[e], openChannels[e], openRemoteChannels[e], log[e], events[e], ticks[e],
      term[e], sendCbs[e]>>

C21_FlowControlObserved ==
    [][\A e \in Endpoints :
        /\ \A c \in DOMAIN openChannels[e] : \A stop \in BOOLEAN :
            (FlowControl(e, c, stop) /\ Established(e, c, openChannels[e][c].dstChannel))
            => /\ ret'.ok
               /\ net'[Peer(e)]
                    = Append(net[Peer(e)],
                             Frame(IF stop THEN MESSAGE_PAUSE ELSE MESSAGE_RESUME,
                                   openChannels[e][c].dstChannel, c, <<>>, ""))
        /\ (Handles(e, MESSAGE_PAUSE) \/ Handles(e, MESSAGE_RESUME))
           => LET f == Head(net[e]) IN
              /\ Established(e, f.dstChannel, f.srcChannel)
                 => log'[e][openChannels[e][f.dstChannel].inst]
                      = Append(LogOf(e, f.dstChannel), EvFlow(f.type = MESSAGE_PAUSE))
              /\ \A i \in 1..Len(log[e]) :
                    log'[e][i] # log[e][i]
                    => /\ Has(openChannels[e], f.dstChannel)
                       /\ openChannels[e][f.dstChannel].inst = i
                       /\ openChannels[e][f.dstChannel].dstChannel = f.srcChannel]_vars

\* the ids the codec is given are of at most 32 bits
InRange(in) == in.dstChannel.hi <= 65535 /\ in.srcChannel.hi <= 65535

\* the codec's answers for an input: 16 header bytes; header and payload decode to
\* version 2, the same type, dst and src, the payload's total length and the payload's
\* bytes; encoding what was decoded gives the same 16 bytes; fewer than 16 bytes give an
\* error and no message
RoundTrip ==
    /\ wire.phase = "encoded" => Length(wire.enc.header) = Wide(0, HEADER_LENGTH)
    /\ wire.phase = "decoded"
       => /\ wire.msg.ok
          /\ wire.msg.header = [version |-> VERSION_2, type |-> wire.in.type,
                                dstChannel |-> wire.in.dstChannel,
                                srcChannel |-> wire.in.srcChannel,
                                length |-> TotalLength(wire.in.data)]
          /\ Bytes(wire.msg.data) = Bytes(Concat(wire.in.data))
    /\ wire.phase = "reencoded" => wire.again.ok /\ wire.again.header = wire.enc.header
    /\ wire.phase = "short" => ~wire.msg.ok /\ wire.msg.data = <<>>

\* C22: for a type of 16 bits, ids of 32 bits and every payload, encodeHeader succeeds and
\* the codec's answers are those of a round trip.
C22_CodecRoundTrip ==
    /\ wire.phase = "threw" => ~InRange(wire.in)
    /\ RoundTrip

\* C22, for the payloads the header's length field can count: for a type of 16 bits, ids
\* of 32 bits and a payload of at most 2^32 - 1 bytes in total, encodeHeader succeeds and
\* the codec's answers are those of a round trip; for a longer payload encodeHeader throws.
C22_CodecRoundTripAmended ==
    /\ wire.phase = "threw" <=> wire.phase \notin {"idle", "input"}
                                /\ (~InRange(wire.in) \/ TotalLength(wire.in.data).hi > 65535)
    /\ RoundTrip

\* a message with the largest type, the largest ids and a payload of two buffers went
\* through encoding, decoding and encoding again
C22_Witness ==
    /\ wire.phase = "reencoded"
    /\ wire.in.type = 65535
    /\ wire.in.dstChannel = Wide(65535, 65535)
    /\ wire.in.srcChannel = Wide(1, 0)
    /\ wire.in.data = <<Alloc(Wide(65535, 65535))>>
    /\ wire.msg.header.length = Wide(65535, 65535)

\* C23: every id allocateChannel may return, CHANNEL_MIN up to CHANNEL_MAX = 2^32, can be
\* put in the header's srcChannel and dstChannel fields: encodeHeader does not throw for
\* it, and the peer decodes the same id.
C23_IdsFit ==
    LET ids == {wire.in.dstChannel, wire.in.srcChannel}
        Allocated(id) == id # Wide(0, 0) /\ (id.hi < CHANNEL_MAX_WIDE.hi \/ id = CHANNEL_MAX_WIDE)
    IN (/\ wire.phase \notin {"idle", "input"}
        /\ \A id \in ids : Allocated(id)
        /\ TotalLength(wire.in.data).hi <= 65535)
       => /\ wire.phase # "threw"
          /\ wire.phase = "decoded"
             => /\ wire.msg.header.dstChannel = wire.in.dstChannel
                /\ wire.msg.header.srcChannel = wire.in.srcChannel

\* the header constraints of a frame's type
WellFormed(f) ==
    CASE f.type = MESSAGE_OPEN -> f.dstChannel = 0 /\ f.srcChannel > 0
      [] f.type \in {MESSAGE_DATA, MESSAGE_ACK, MESSAGE_PAUSE, MESSAGE_RESUME}
            -> f.dstChannel > 0 /\ f.srcChannel > 0
      [] f.type = MESSAGE_CLOSE -> f.dstChannel > 0
      [] OTHER -> FALSE

\* C24: every frame a multiplexer has put on the carrier obeys the header constraints of
\* its type - OPEN has dst = 0 and src > 0; DATA, ACK, PAUSE and RESUME have dst > 0 and
\* src > 0; CLOSE has dst > 0 - also after destroy() while channels are still opening.
C24_FramesWellFormed ==
    \A e \in Endpoints : \A i \in 1..Len(net[e]) : WellFormed(net[e][i])

\* s is a prefix of t
IsPrefix(s, t) == Len(s) <= Len(t) /\ SubSeq(t, 1, Len(s)) = s

\* adapter j of the peer is the other end of adapter i of e
Counterpart(e, i, j) ==
    /\ j \in 1..Len(sock[Peer(e)])
    /\ sock[e][i].channel # 0
    /\ sock[Peer(e)][j].channel = sock[e][i].dstChannel
    /\ sock[Peer(e)][j].dstChannel = sock[e][i].channel

\* the DATA payloads on their way to e for channel c, joined in order
RECURSIVE DataFor(_, _)
DataFor(q, c) ==
    IF q = <<>> THEN <<>>
    ELSE (IF Head(q).type = MESSAGE_DATA /\ Head(q).dstChannel = c THEN Head(q).data ELSE <<>>)
         \o DataFor(Tail(q), c)

\* C25: data written to an adapter before its channel is open is neither dropped nor
\* sent early: nothing is sent while the adapter is not open, what was written is what
\* was sent followed by what is still buffered, in the order of the writes, and the
\* peer's consumer has read a prefix of the bytes written
C25_WritesBufferedInOrder ==
    \A e \in Endpoints : \A i \in 1..Len(sock[e]) :
        LET a == sock[e][i] IN
        /\ a.readyState # "open" => a.sent = <<>>
        /\ ~a.destroyed => Joined(a.sent) \o Joined(a.writeBuffer) \o Joined(a.wq) = Joined(a.wrote)
        /\ \A j \in 1..Len(sock[Peer(e)]) :
              Counterpart(e, i, j) => IsPrefix(Joined(sock[Peer(e)][j].got), Joined(a.wrote))

\* two writes before the channel opened went out as one message ahead of the third,
\* and the peer's consumer read all three in order
C25_Witness ==
    /\ Len(sock["A"]) = 1 /\ Len(sock["B"]) = 1
    /\ sock["A"][1].sent = << <<1, 2>>, <<3>> >>
    /\ Joined(sock["B"][1].got) = <<1, 2, 3>>

RECURSIVE Arrived(_)
\* the payloads of the data callbacks in a context's callbacks, in order
Arrived(l) ==
    IF l = <<>> THEN <<>>
    ELSE (IF Head(l).cb = "data" THEN <<Head(l).data>> ELSE <<>>) \o Arrived(Tail(l))

\* C26: the inbound DATA of an adapter reaches its consumer in arrival order and exactly
\* once: what the consumer took, what the stream holds for it and what the adapter still
\* queues are, in this order, the payloads that arrived; and readBufferSize is the total
\* length of the queued payloads
C26_ReadQueue ==
    \A e \in Endpoints : \A i \in 1..Len(sock[e]) :
        LET a == sock[e][i] IN
        /\ a.readBufferSize = Size(a.readBuffer)
        /\ ~a.destroyed => a.got \o a.rq \o a.readBuffer = Arrived(log[e][i])

\* of three payloads that arrived the consumer took the first, the stream holds the
\* second and the adapter queues the third
C26_Witness ==
    /\ Len(sock["B"]) = 1
    /\ sock["B"][1].got = << <<1>> >>
    /\ sock["B"][1].rq = << <<2>> >>
    /\ sock["B"][1].readBuffer = << <<3>> >>
    /\ sock["B"][1].readBufferSize = 1

\* C27: an inbound DATA that leaves readBufferSize above the high-water mark makes the
\* adapter send PAUSE for its channel, every _read of the consumer makes it send RESUME,
\* and at the peer's adapter the outbound path is corked once the PAUSE is handled and
\* open again once the RESUME is handled
C27_PauseResume ==
    [][\A e \in Endpoints : \A i \in 1..Len(sock[e]) :
        LET a == sock[e][i]
            Ctl(type) == Frame(type, a.dstChannel, a.channel, <<>>, "")
        IN
        /\ (SockDeliver(e) /\ Head(net[e]).type = MESSAGE_DATA /\ Head(net[e]).dstChannel = a.channel
              /\ sock'[e][i].readBufferSize > HighWaterMark)
           => net'[Peer(e)] = Append(net[Peer(e)], Ctl(MESSAGE_PAUSE))
        /\ SockRead(e, i) => net'[Peer(e)] = Append(net[Peer(e)], Ctl(MESSAGE_RESUME))
        /\ (SockDeliver(e) /\ Head(net[e]).type = MESSAGE_PAUSE /\ Head(net[e]).dstChannel = a.channel)
           => sock'[e][i].corked > 0
        /\ (SockDeliver(e) /\ Head(net[e]).type = MESSAGE_RESUME /\ Head(net[e]).dstChannel = a.channel)
           => sock'[e][i].corked = 0]_vars

\* steps of the consumer that set the timeout of adapter i at A
SetsTimeout(i) ==
    \/ \E ms \in {0, SockTimeoutMs} : SockSetTimeout("A", i, ms)
    \/ \E enable \in BOOLEAN : SockSetKeepAlive("A", i, enable)

\* the step opens adapter i of A; the step hands inbound data to it
SockOpened(i) == sock["A"][i].readyState # "open" /\ sock'["A"][i].readyState = "open"
SockReceived(i) == Arrived(log'["A"][i]) # Arrived(log["A"][i])

\* C28: the adapter emits 'timeout' only after the timeout's milliseconds without an
\* open, inbound data or a write of the consumer, each of which restarts the full
\* period; the timer is single-shot and armed again only by such activity or a new
\* setTimeout; with a timeout of 0 (setTimeout(0), setKeepAlive(true)) no timer runs
C28_Timeout ==
    [][\A i \in 1..Len(sock["A"]) :
        LET a == sock["A"][i] IN
        /\ SockTimeoutFire("A", i) => a.quiet >= a.timeout /\ sock'["A"][i].timeoutTimer = -1
        /\ (a.timeout > 0 /\ (SockOpened(i) \/ SockReceived(i) \/ (a.readyState = "open" /\ sock'["A"][i].wrote # a.wrote)))
           => sock'["A"][i].timeoutTimer = a.timeout
        /\ (a.timeoutTimer = -1 /\ sock'["A"][i].timeoutTimer # -1)
           => sock'["A"][i].quiet = 0 \/ SetsTimeout(i)
        /\ sock'["A"][i].timeout = 0 => sock'["A"][i].timeoutTimer = -1]_vars

\* C28 with a write counted when the stream hands it to _write or _writev (a write()
\* made while an earlier write is in flight or the adapter is corked is handed over later)
C28_TimeoutAmended ==
    [][\A i \in 1..Len(sock["A"]) :
        LET a == sock["A"][i] IN
        /\ SockTimeoutFire("A", i)
           => a.quietHanded >= a.timeout /\ sock'["A"][i].timeoutTimer = -1
        /\ (a.timeout > 0 /\ (SockOpened(i) \/ SockReceived(i) \/ sock'["A"][i].sent # a.sent))
           => sock'["A"][i].timeoutTimer = a.timeout
        /\ (a.timeoutTimer = -1 /\ sock'["A"][i].timeoutTimer # -1)
           => sock'["A"][i].quietHanded = 0 \/ SetsTimeout(i)
        /\ sock'["A"][i].timeout = 0 => sock'["A"][i].timeoutTimer = -1]_vars

\* 'timeout' was emitted at an adapter that wrote and received data before falling idle
C28_Witness ==
    /\ Len(sock["A"]) = 1
    /\ sock["A"][1].emitted = <<"connect", "ready", "timeout">>
    /\ sock["A"][1].timeoutTimer = -1
    /\ sock["A"][1].timeout = SockTimeoutMs
    /\ sock["A"][1].sent # <<>>
    /\ sock["A"][1].readBuffer # <<>>
    /\ sock["A"][1].quietHanded = SockTimeoutMs

\* C29: at every endpoint, openRemoteChannels maps remote id r to local id c exactly
\* when openChannels holds a context for c whose dstChannel is r
C29_MapsAgree ==
    \A e \in Endpoints : \A r \in CHANNEL_MIN..CHANNEL_MAX : \A c \in CHANNEL_MIN..CHANNEL_MAX :
        (Has(openRemoteChannels[e], r) /\ openRemoteChannels[e][r] = c)
        <=> (Has(openChannels[e], c) /\ openChannels[e][c].dstChannel = r)

\* message f on its way to e is not of the channel instance that holds its destination
\* id: an ACK for a context that awaits none, or a CLOSE, DATA, PAUSE or RESUME sent by
\* a channel of the peer that is not the context's remote end (the carrier keeps order,
\* so the peer channel's ACK would have been handled before)
StaleFor(e, f) ==
    /\ Has(openChannels[e], f.dstChannel)
    /\ IF f.type = MESSAGE_ACK
       THEN ~openChannels[e][f.dstChannel].ackTimeout
       ELSE /\ f.type \in {MESSAGE_CLOSE, MESSAGE_DATA, MESSAGE_PAUSE, MESSAGE_RESUME}
            /\ f.srcChannel # 0
            /\ openChannels[e][f.dstChannel].dstChannel # f.srcChannel

\* C30: a message that was in flight for an earlier channel instance does not act on
\* the instance that now holds the same local id: handling it leaves that context in
\* place and unchanged and delivers no callback to it
C30_StaleFramesIgnored ==
    [][\A e \in Endpoints :
        (Deliver(e) /\ ~closed[e] /\ StaleFor(e, Head(net[e])))
        => LET c == Head(net[e]).dstChannel IN
           /\ Has(openChannels'[e], c)
           /\ openChannels'[e][c] = openChannels[e][c]
           /\ log'[e][openChannels[e][c].inst] = LogOf(e, c)]_vars

\* the context that openRemoteChannels[e] holds for remote id r was installed by the
\* last message handled: its deferred onOpen is still queued
JustAccepted(e, r) ==
    /\ Has(openRemoteChannels[e], r)
    /\ Has(openChannels[e], openRemoteChannels[e][r])
    /\ \E i \in 1..Len(ticks[e]) :
          /\ ticks[e][i].kind = "onOpen"
          /\ ticks[e][i].inst = openChannels[e][openRemoteChannels[e][r]].inst

\* C31: the completion of a CLOSE that carried an error payload touches only the
\* channel that was closed.  A CLOSE sent with a source id is followed at once by the
\* removal of its context and its remote entry (mismatch path), so whatever holds the
\* same local or remote id when the completion runs was established in between and
\* is left alone; so is a channel accepted under the remote id by the last message handled
C31_CompletionTouchesOwnChannel ==
    [][\A e \in Endpoints :
        SendDone(e)
        => LET c == Head(sendCbs[e]) IN
           /\ (c.srcChannel # 0 \/ JustAccepted(e, c.dstChannel))
              => (Has(openRemoteChannels[e], c.dstChannel)
                    => /\ Has(openRemoteChannels'[e], c.dstChannel)
                       /\ openRemoteChannels'[e][c.dstChannel] = openRemoteChannels[e][c.dstChannel])
           /\ (c.srcChannel # 0 /\ Has(openChannels[e], c.srcChannel))
              => openChannels'[e][c.srcChannel] = openChannels[e][c.srcChannel]]_vars

\* C32: no context gets onOpen after its onClose: the deferred onOpen of an accepted
\* channel is not delivered once the channel has been closed
C32_NoOpenAfterClose ==
    \A e \in Endpoints : \A i \in 1..Len(log[e]) :
        \A j \in 1..Len(log[e][i]) : \A k \in (j + 1)..Len(log[e][i]) :
            log[e][i][j].cb = "close" => log[e][i][k].cb # "open"

\* C33: a CLOSE handled for an existing context delivers onError(OPEN_CHANNEL_REJECTED),
\* with the remote error of the payload, when the ack timer is pending; otherwise
\* onError(CHANNEL_CLOSED_BY_PEER) with the remote error when there is a payload;
\* otherwise no onError.  onClose follows, and the context is gone from openChannels
\* and no entry of openRemoteChannels names it
C33_InboundClose ==
    [][\A e \in Endpoints :
        (Handles(e, MESSAGE_CLOSE) /\ ~closed[e] /\ Has(openChannels[e], Head(net[e]).dstChannel))
        => LET f == Head(net[e])
               c == f.dstChannel
               ctx == openChannels[e][c]
               errs == IF ctx.ackTimeout
                       THEN <<EvError(ErrRemote(ERR_WSM_OPEN_CHANNEL_REJECTED, f.err))>>
                       ELSE IF f.err # ""
                       THEN <<EvError(ErrRemote(ERR_WSM_CHANNEL_CLOSED_BY_PEER, f.err))>>
                       ELSE <<>>
           IN /\ log'[e][ctx.inst] = log[e][ctx.inst] \o errs \o <<EvClose(c)>>
              /\ ~Has(openChannels'[e], c)
              /\ \A r \in DOMAIN openRemoteChannels'[e] : openRemoteChannels'[e][r] # c]_vars

\* a message at the head of e's inbound queue that is malformed (fewer than 16 bytes),
\* of a type the protocol does not have, or a CLOSE for a channel e has no context of
Ignorable(e) ==
    LET m == Head(net[e]) IN
    IF "chunk" \in DOMAIN m
    THEN \/ ~WideGE(Length(m.chunk), HEADER_LENGTH)
         \/ /\ readUInt16BE(m.chunk, 0) = VERSION_2
            /\ \/ readUInt16BE(m.chunk, 2) \notin MESSAGE_DATA..MESSAGE_RESUME
               \/ /\ readUInt16BE(m.chunk, 2) = MESSAGE_CLOSE
                  /\ ~Has(openChannels[e], readUInt32BE(m.chunk, 4).lo)
    ELSE /\ m.version = VERSION_2
         /\ \/ m.type \notin MESSAGE_DATA..MESSAGE_RESUME
            \/ m.type = MESSAGE_CLOSE /\ ~Has(openChannels[e], m.dstChannel)

\* C34: an inbound message that is malformed (shorter than the 16-byte header), of an
\* unknown type with version 2, or a CLOSE for a dstChannel without context is ignored:
\* nothing is sent, no callback runs and no event is emitted, and the maps, the
\* contexts with their counters and timers, and the queued callbacks stay as they were
C34_Ignored ==
    [][\A e \in Endpoints :
        (net[e] # <<>> /\ net'[e] = Tail(net[e]) /\ Ignorable(e))
        => /\ net'[Peer(e)] = net[Peer(e)]
           /\ UNCHANGED <<openChannels, openRemoteChannels, log, events, ticks, sendCbs,
                          term, closed, socket>>]_vars

\* a CLOSE for channel 2 was handled by an endpoint whose only channel,
\* 1, is still there and has seen no callback but its open
C34_Witness ==
    /\ ret.op = "message" /\ ret.ok /\ ret.code = ToString(MESSAGE_CLOSE) /\ ret.channel = 2
    /\ \E e \in Endpoints :
        /\ ret.e = e
        /\ DOMAIN openChannels[e] = {1}
        /\ \A i \in 1..Len(log[e]) : \A j \in 1..Len(log[e][i]) : log[e][i][j].cb # "close"

\* C35: with fewer than maxChannels ids allocated, allocateChannel succeeds and returns
\* an id that is not allocated and lies in 1..2^32, whatever the allocated ids are: ids
\* at and next to 2^32, ids with different numbers of digits
C35_AllocateSucceeds ==
    (wire.phase = "allocated" /\ Cardinality(wire.keys) < wire.max)
    => /\ wire.got.err = NoErr
       /\ wire.got.channel \notin wire.keys
       /\ DecLE(<<1>>, wire.got.channel) /\ DecLE(wire.got.channel, CHANNEL_MAX_DEC)

\* the table {1, 2, 4, 2^32} of the wrap-around test got id 3
C35_Witness ==
    /\ wire.phase = "allocated"
    /\ wire.keys = {<<1>>, <<2>>, <<4>>, CHANNEL_MAX_DEC}
    /\ wire.max = 5
    /\ wire.got = [channel |-> <<3>>, err |-> NoErr]

\* the numerically largest of the allocated ids
DecMax(keys) == CHOOSE k \in keys : \A j \in keys : DecLE(j, k)

RECURSIVE FirstFree(_, _)
\* the first id from channel upward, wrapping from 2^32 to 1, that is not allocated
FirstFree(keys, channel) ==
    IF channel \in keys THEN FirstFree(keys, DecStart(channel)) ELSE channel

\* C36: the id allocateChannel returns is the reference choice: (max_id mod 2^32) + 1
\* for the numerically largest allocated id (1 for an empty table), stepped upward
\* with wrap-around to the first free id
C36_ReferenceChoice ==
    (wire.phase = "allocated" /\ Cardinality(wire.keys) < wire.max)
    => wire.got.channel
         = FirstFree(wire.keys, DecStart(IF wire.keys = {} THEN <<>> ELSE DecMax(wire.keys)))

\* the frames a message with this payload takes: the header, and one per buffer
FramesOf(data) ==
    IF ~data.given THEN 1 ELSE IF data.bufs = <<>> THEN 2 ELSE 1 + Len(data.bufs)

RECURSIVE RunsOf(_, _)
\* frames is the runs of the messages msgs one after the other: each run starts with
\* 16 bytes of header, has fin on its last frame and on no other, and carries the
\* payload's buffers one per frame
RunsOf(frames, msgs) ==
    IF msgs = <<>> THEN frames = <<>>
    ELSE LET m == Head(msgs)  n == FramesOf(m.data) IN
         /\ Len(frames) >= n
         /\ Length(frames[1].data) = Wide(0, HEADER_LENGTH)
         /\ \A i \in 1..n : frames[i].fin = (i = n)
         /\ \A i \in 1..Len(m.data.bufs) : frames[i + 1].data = m.data.bufs[i]
         /\ RunsOf(SubSeq(frames, n + 1, Len(frames)), Tail(msgs))

\* C37: every message goes to the carrier as one run of frames, header first, fin on
\* the last frame only (on the header when there is no payload), the runs of two
\* messages one after the other; and the receiver gets one message per message sent,
\* its payload the buffers joined, its header's length their total length
C37_Framing ==
    wire.phase = "frames"
    => /\ RunsOf(wire.all, wire.sent)
       /\ Len(wire.got) <= Len(wire.sent)
       /\ wire.carrier = <<>> => Len(wire.got) = Len(wire.sent)
       /\ \A k \in 1..Len(wire.got) :
            LET m == wire.sent[k]  msg == wire.got[k] IN
            /\ msg.ok
            /\ msg.header = [version |-> VERSION_2, type |-> m.type,
                             dstChannel |-> Wide(0, m.dst), srcChannel |-> Wide(0, m.src),
                             length |-> TotalLength(m.data.bufs)]
            /\ Bytes(msg.data) = Bytes(Concat(m.data.bufs))

\* two messages were sent back to back and then received, the first with three buffers
C37_Witness ==
    /\ wire.phase = "frames"
    /\ Len(wire.got) = 2
    /\ Len(wire.all) >= 5
    /\ Len(wire.sent[1].data.bufs) = 3
    /\ wire.got[1].header.length = Wide(0, 3)

\* C40: the remote error made from the payload of a CLOSE for an existing context is a
\* typed error with the payload as its code when the payload is one of the error
\* codes, and a plain Error with the payload as its message when it is not
C40_RemoteError ==
    [][\A e \in Endpoints :
        (Handles(e, MESSAGE_CLOSE) /\ ~closed[e] /\ Head(net[e]).err # ""
           /\ Has(openChannels[e], Head(net[e]).dstChannel))
        => LET f == Head(net[e])
               inst == openChannels[e][f.dstChannel].inst
               ev == log'[e][inst][Len(log[e][inst]) + 1]
           IN /\ Len(log'[e][inst]) = Len(log[e][inst]) + 2
              /\ ev.cb = "error"
              /\ ev.remote = IF f.err \in ErrorCodes THEN TypedError(f.err)
                                 ELSE GenericError(f.err)]_vars

\* a PAUSE, a RESUME or DATA of the channel pair c/d is on its way in either direction
InFlight(e, c, d) ==
    \/ \E k \in 1..Len(net[e]) : net[e][k].dstChannel = c
    \/ \E k \in 1..Len(net[Peer(e)]) : net[Peer(e)][k].dstChannel = d

\* C39: PAUSE and RESUME balance per channel: a writer corked by a PAUSE gets no
\* second PAUSE (no second cork) before the RESUME that uncorks it, and when the
\* consumer has taken all that arrived and asked for more, with nothing of the channel
\* on its way, the peer's writer is not corked
C39_Balanced ==
    \A e \in Endpoints : \A i \in 1..Len(sock[e]) :
        LET a == sock[e][i] IN
        /\ a.corked <= 1
        /\ \A j \in 1..Len(sock[Peer(e)]) :
             (Counterpart(e, i, j) /\ a.wantData /\ a.readBufferSize = 0 /\ a.rq = <<>>
                /\ ~InFlight(e, a.channel, a.dstChannel))
             => sock[Peer(e)][j].corked = 0

\* the events adapter i of e emits in this step
NewlyEmitted(e, i) ==
    { sock'[e][i].emitted[n] : n \in (Len(sock[e][i].emitted) + 1)..Len(sock'[e][i].emitted) }

\* C38: an adapter that has been destroyed, open or still waiting for its ACK, does not
\* become open afterwards, emits no connect, ready or timeout, and sends no data
C38_DestroyedStaysClosed ==
    [][\A e \in Endpoints : \A i \in 1..Len(sock[e]) :
        sock[e][i].streamDestroyed
        => /\ sock'[e][i].readyState = "open" => sock[e][i].readyState = "open"
           /\ NewlyEmitted(e, i) \cap {"connect", "ready", "timeout"} = {}
           /\ sock'[e][i].sent = sock[e][i].sent]_vars

====
